---------------------------- MODULE Spec2Model ----------------------------
(***************************************************************************)
(* A model of the Namite username prober: the candidate generator and its  *)
(* validator (username_generator.py), the adaptive controller and its      *)
(* credential pool (adaptive_learning.py), the persistent store            *)
(* (database.py) and the check pipeline with its endpoint router           *)
(* (roblox_api.py).                                                        *)
(*                                                                         *)
(* Conventions.  A Python str is a sequence of one-character strings.      *)
(* Times are integers in milliseconds.  Each component has its own         *)
(* specification over the shared variables; a specification leaves the     *)
(* variables of the other components at their values after construction.   *)
(***************************************************************************)
EXTENDS Integers, Sequences, FiniteSets, TLC

VARIABLES
    API_ENDPOINTS,      \* roblox_api.API_ENDPOINTS: health fields per endpoint
    current_api_index,  \* roblox_api.current_api_index
    memory_cache,       \* roblox_api.memory_cache
    checked_usernames,  \* database: table checked_usernames (committed rows)
    now,                \* time.time() / datetime.now(), in ms
    adaptive_system,    \* roblox_api.adaptive_system: the AdaptiveLearning object
    state_file,         \* the file adaptive_state.json
    calls,              \* check_username_availability invocations in flight
    gen,                \* one generator / validator invocation
    saved_parameters,   \* the parameters save_state() last wrote
    obs,                \* the last operation: what it was given and returned
    budget              \* how many more environment events the model takes

vars == <<API_ENDPOINTS, current_api_index, memory_cache, checked_usernames,
          now, adaptive_system, state_file, calls, gen, saved_parameters,
          obs, budget>>

(***************************************************************************)
(* Bounds of the model.                                                    *)
(***************************************************************************)
\* longest string enumerated character by character for validate_username
MaxShortLen == 4
\* most cookies configured in the environment
MaxCookies == 2
\* record_check calls after the recorded history, per run of the controller
MaxRecords == 1
\* adapt() calls, length commands and restarts per run of the controller
MaxAdapts == 2
MaxCommands == 1
MaxRestarts == 1
\* outcome reports, selections and clock steps per run of the cookie pool
MaxReports == 3
MaxSelections == 3
MaxTicks == 2
\* random.choices(population, k=n): every string for n up to MaxDrawLen, and
\* for a longer one every head of MaxDrawLen characters with one repeated
\* character after it
MaxDrawLen == 3
\* check_username_availability calls in flight at once, and per run
MaxInFlight == 2
MaxChecks == 2
\* responses of each kind, failed database calls and clock steps per run of
\* the pipeline
MaxFailures == 2
MaxRateLimits == 1
MaxSuccesses == 1
MaxOthers == 1
MaxDbFailures == 1
MaxClockSteps == 1

(***************************************************************************)
(* Characters (string.ascii_letters, string.digits) and str methods.       *)
(***************************************************************************)
ascii_lowercase == {"a", "b", "c"}
ascii_uppercase == {"A", "B", "C"}
ascii_letters == ascii_lowercase \cup ascii_uppercase
digits == {"1", "2", "3"}
\* a character str.isdigit() accepts that is not in string.digits
SuperscriptTwo == "sup2"
\* characters that are neither letters, digits nor '_'
OtherChars == {"-", SuperscriptTwo}
Underscore == "_"

Min(a, b) == IF a <= b THEN a ELSE b
Max(a, b) == IF a >= b THEN a ELSE b

\* k copies of character c
Rep(c, k) == [i \in 1..k |-> c]

\* all strings over alphabet A of length lo..hi
StringsOver(A, lo, hi) == UNION {[1..k -> A] : k \in lo..hi}

\* str.isdigit(): non-empty and every character a digit
isdigit(s) ==
    /\ Len(s) > 0
    /\ \A i \in 1..Len(s) : s[i] \in digits \cup {SuperscriptTwo}

\* str.replace('_', '')
remove_underscores(s) == SelectSeq(s, LAMBDA c : c # Underscore)

\* str.count('_')
count_underscores(s) == Cardinality({i \in 1..Len(s) : s[i] = Underscore})

startswith_underscore(s) == Len(s) > 0 /\ s[1] = Underscore
endswith_underscore(s) == Len(s) > 0 /\ s[Len(s)] = Underscore

(***************************************************************************)
(* username_generator.validate_username, check by check as the code        *)
(* returns.                                                                *)
(***************************************************************************)
\* a slip a validator could make: the edge test looks at the first
\* character only
validate_username_first_edge_only(username) ==
    IF Len(username) < 3 \/ Len(username) > 20 THEN FALSE
    ELSE IF ~ \A i \in 1..Len(username) :
                username[i] \in ascii_letters \cup digits \cup {Underscore}
    THEN FALSE
    ELSE IF startswith_underscore(username) THEN FALSE
    ELSE IF count_underscores(username) > 1 THEN FALSE
    ELSE IF isdigit(remove_underscores(username)) THEN FALSE
    ELSE TRUE

validate_username(username) ==
    IF Len(username) < 3 \/ Len(username) > 20 THEN FALSE
    ELSE IF ~ \A i \in 1..Len(username) :
                username[i] \in ascii_letters \cup digits \cup {Underscore}
    THEN FALSE
    ELSE IF startswith_underscore(username) \/ endswith_underscore(username)
    THEN FALSE
    ELSE IF count_underscores(username) > 1 THEN FALSE
    ELSE IF isdigit(remove_underscores(username)) THEN FALSE
    ELSE TRUE


(***************************************************************************)
(* The floats of adaptive_learning.py.  A rate that is only compared with  *)
(* a threshold is the exact fraction <<num, den>>.  A float that is stored *)
(* (a weight, a probability) is a fixed-point number: the integer count of *)
(* thousandths, rounded down after each division.                          *)
(***************************************************************************)
Thousandths == 10 * 100

Abs(n) == IF n < 0 THEN -n ELSE n

RECURSIVE GCD(_, _)
GCD(a, b) == IF b = 0 THEN a ELSE GCD(b, a % b)

Rat(n, d) == LET g == GCD(Abs(n), d) IN <<n \div g, d \div g>>
RatLess(p, q) == p[1] * q[2] < q[1] * p[2]
\* the fixed-point value of the fraction n / d
Fixed(n, d) == (n * Thousandths) \div d

RECURSIVE NatSum(_, _)
NatSum(f, S) ==
    IF S = {} THEN 0
    ELSE LET k == CHOOSE x \in S : TRUE
         IN f[k] + NatSum(f, S \ {k})

(***************************************************************************)
(* adaptive_learning.py: constants.                                        *)
(***************************************************************************)
MAX_PARALLEL_CHECKS == 50
MIN_PARALLEL_CHECKS == 5
SUCCESS_WINDOW_SIZE == 100
LENGTH_WINDOW_SIZE == 50
ERROR_THRESHOLD == 5
COOKIE_COOLDOWN == 300000
MIN_VALID_CHECKS == 20
MIN_LENGTH_SAMPLES == 5
DEFAULT_PARALLEL_CHECKS == 10
\* LEARNING_RATE = 0.1, as the divisor of a tenth
LEARNING_RATE_TENTHS == 10
LENGTH_DISTRIBUTION ==
    (3 :> Fixed(30, 1)) @@ (4 :> Fixed(25, 1)) @@ (5 :> Fixed(20, 1)) @@
    (6 :> Fixed(15, 1)) @@ (7 :> Fixed(5, 1)) @@ (8 :> Fixed(3, 1)) @@
    (9 :> Fixed(2, 1))

\* (1 - LEARNING_RATE) * current + LEARNING_RATE * new
blend(current, new) ==
    ((LEARNING_RATE_TENTHS - 1) * current + new) \div LEARNING_RATE_TENTHS

\* the status record _load_cookies creates for a cookie at time t
NewCookieStatus(t) ==
    [last_used |-> t, success_count |-> 0, error_count |-> 0,
     cooldown_until |-> 0]

\* AdaptiveLearning.__init__ before _load_state, with n valid cookies in
\* the environment.  The timestamps of recent_checks and recent_lengths
\* entries are written and never read; an entry is (is_available, error).
\* cookies holds the opaque cookie strings, named here by their position.
AdaptiveLearningInit(n, t) ==
    [recent_checks |-> <<>>,
     recent_lengths |-> <<>>,
     parallel_checks |-> DEFAULT_PARALLEL_CHECKS,
     length_weights |-> LENGTH_DISTRIBUTION,
     pattern_weights |-> <<>>,
     underscore_probability |-> Fixed(1, 5),
     numeric_probability |-> Fixed(3, 10),
     uppercase_probability |-> Fixed(2, 5),
     cookies |-> [i \in 1..n |-> i - 1],
     cookie_status |-> [i \in 1..n |-> NewCookieStatus(t)],
     current_cookie_index |-> 0]

(***************************************************************************)
(* AdaptiveLearning._extract_patterns: the keys of pattern_weights.  The   *)
(* key "type:LLN" is <<"type", <<"L","L","N">>>>, "length:3" is            *)
(* <<"length", 3>>, and so on: the text before the colon and the value.    *)
(***************************************************************************)
CharType(c) ==
    IF c \in ascii_uppercase THEN "U"
    ELSE IF c \in ascii_lowercase THEN "L"
    ELSE IF c \in digits \cup {SuperscriptTwo} THEN "N"
    ELSE "_"

type_pattern(username) == [i \in 1..Len(username) |-> CharType(username[i])]

has_underscore(username) == \E i \in 1..Len(username) : username[i] = Underscore
has_number(username) ==
    \E i \in 1..Len(username) : username[i] \in digits \cup {SuperscriptTwo}

\* str.index('_'), 0-based
underscore_index(username) ==
    CHOOSE i \in 0..(Len(username) - 1) :
        /\ username[i + 1] = Underscore
        /\ \A j \in 0..(i - 1) : username[j + 1] # Underscore

_extract_patterns(username) ==
    {<<"type", type_pattern(username)>>,
     <<"has_underscore", has_underscore(username)>>,
     <<"has_number", has_number(username)>>,
     <<"length", Len(username)>>}
    \cup (IF has_underscore(username)
          THEN {<<"underscore_pos", underscore_index(username)>>}
          ELSE {})

(***************************************************************************)
(* AdaptiveLearning.record_check                                           *)
(***************************************************************************)
\* a slip: in a full window the new entry takes the place of the newest one
AppendWindow_overwrites(w, e, size) ==
    IF Len(w) >= size THEN [w EXCEPT ![Len(w)] = e] ELSE Append(w, e)

\* list.append then pop(0) when longer than size
AppendWindow(w, e, size) ==
    LET w1 == Append(w, e) IN IF Len(w1) > size THEN Tail(w1) ELSE w1

record_check(al, username, is_available, error, t) ==
    LET entry == [is_available |-> is_available, error |-> error]
        i == al.current_cookie_index + 1
        cs == IF al.current_cookie_index < Len(al.cookie_status)
              THEN IF error
                   THEN [al.cookie_status EXCEPT ![i].error_count = @ + 1]
                   ELSE [al.cookie_status EXCEPT
                            ![i].success_count =
                                IF is_available THEN @ + 1 ELSE @,
                            ![i].last_used = t]
              ELSE al.cookie_status
        length == Len(username)
        old == IF length \in DOMAIN al.recent_lengths
               THEN al.recent_lengths[length] ELSE <<>>
        rl == [k \in DOMAIN al.recent_lengths \cup {length} |->
                 IF k = length THEN AppendWindow(old, entry, LENGTH_WINDOW_SIZE)
                 ELSE al.recent_lengths[k]]
        keys == _extract_patterns(username)
        pw == IF is_available
              THEN [k \in DOMAIN al.pattern_weights \cup keys |->
                      IF k \in keys
                      THEN (IF k \in DOMAIN al.pattern_weights
                            THEN al.pattern_weights[k] + Fixed(1, 1)
                            ELSE Fixed(1, 1))
                      ELSE al.pattern_weights[k]]
              ELSE al.pattern_weights
    IN [al EXCEPT
          !.recent_checks = AppendWindow(@, entry, SUCCESS_WINDOW_SIZE),
          !.cookie_status = cs,
          !.recent_lengths = rl,
          !.pattern_weights = pw]

(***************************************************************************)
(* AdaptiveLearning.adapt and what it calls.                               *)
(***************************************************************************)
valid_checks(checks) == SelectSeq(checks, LAMBDA c : ~c.error)
successful(checks) ==
    Cardinality({i \in 1..Len(checks) : ~checks[i].error /\ checks[i].is_available})
errors(checks) == Cardinality({i \in 1..Len(checks) : checks[i].error})

\* successful / total_valid over the non-error entries, 0 when there are none
success_rate(checks) ==
    IF Len(valid_checks(checks)) > 0
    THEN Rat(successful(checks), Len(valid_checks(checks)))
    ELSE <<0, 1>>

_error_rate(al) ==
    IF Len(al.recent_checks) = 0 THEN <<0, 1>>
    ELSE Rat(errors(al.recent_checks), Len(al.recent_checks))

\* a slip: the except branch clears parallel_checks instead of setting
\* the safe value
fallback_cleared == MIN_PARALLEL_CHECKS - MIN_PARALLEL_CHECKS

\* the value parallel_checks gets when _adapt_parallel_checks catches an
\* exception
FALLBACK_PARALLEL_CHECKS == 10

\* With no cookie the function returns MIN_PARALLEL_CHECKS at line 301.
\* With one or more it reaches line 323, which evaluates math.log; the
\* module never imports math, so the call raises NameError.
calculate_dynamic_values(al) ==
    IF Len(al.cookies) = 0
    THEN [raised |-> FALSE, value |-> MIN_PARALLEL_CHECKS]
    ELSE [raised |-> TRUE, value |-> 0]

\* int(x * 0.7) and int(x * 1.2) for the integers x the code passes
int_times_0_7(x) == (7 * x) \div 10
int_times_1_2(x) == (12 * x) \div 10

\* int(parallel_checks + (new_parallel - parallel_checks) * 0.1)
smoothed(parallel_checks, new_parallel) ==
    (9 * parallel_checks + new_parallel) \div 10

\* max(MIN_PARALLEL_CHECKS, min(MAX_PARALLEL_CHECKS, x))
clamp_parallel(x) == Max(MIN_PARALLEL_CHECKS, Min(MAX_PARALLEL_CHECKS, x))

_adapt_parallel_checks(al, rate) ==
    LET cookie_based_checks == calculate_dynamic_values(al)
    IN IF cookie_based_checks.raised
       THEN [al EXCEPT !.parallel_checks = FALLBACK_PARALLEL_CHECKS]
       ELSE LET cb == cookie_based_checks.value
                new_parallel ==
                    IF RatLess(rate, <<1, 100>>)
                    THEN Max(int_times_0_7(cb), MIN_PARALLEL_CHECKS)
                    ELSE IF ~RatLess(rate, <<1, 20>>)
                            /\ RatLess(_error_rate(al), <<1, 10>>)
                    THEN Min(int_times_1_2(cb), MAX_PARALLEL_CHECKS)
                    ELSE cb
            IN [al EXCEPT !.parallel_checks =
                              clamp_parallel(smoothed(@, new_parallel))]

\* the scarcity boost of a length (3.0, 1.5, 1.0), in tenths
length_factor(length) ==
    IF length <= 4 THEN 30 ELSE IF length <= 6 THEN 15 ELSE 10

\* a slip: a length without a measured success rate gets the weight 0
_adapt_length_weights_zeroing(al) ==
    LET rl == al.recent_lengths
        measured == {k \in DOMAIN rl :
                        /\ Len(rl[k]) >= MIN_LENGTH_SAMPLES
                        /\ Len(valid_checks(rl[k])) > 0}
        length_success == [k \in measured |->
            Fixed(successful(rl[k]), Len(valid_checks(rl[k])))]
        total_score == NatSum(length_success, measured)
        new_weights == [k \in measured |->
            (Fixed(length_success[k], total_score) * 100 * length_factor(k)) \div 10]
        lw == al.length_weights
        blended == [k \in DOMAIN lw \cup measured |->
            IF k \in measured
            THEN IF k \in DOMAIN lw
                 THEN blend(lw[k], new_weights[k])
                 ELSE new_weights[k]
            ELSE 0]
    IN IF measured = {} THEN al
       ELSE IF total_score <= 0 THEN al
       ELSE [al EXCEPT !.length_weights = blended]

_adapt_length_weights(al) ==
    LET rl == al.recent_lengths
        measured == {k \in DOMAIN rl :
                        /\ Len(rl[k]) >= MIN_LENGTH_SAMPLES
                        /\ Len(valid_checks(rl[k])) > 0}
        length_success == [k \in measured |->
            Fixed(successful(rl[k]), Len(valid_checks(rl[k])))]
        total_score == NatSum(length_success, measured)
        \* (rate / total_score) * 100 * length_factor
        new_weights == [k \in measured |->
            (Fixed(length_success[k], total_score) * 100 * length_factor(k)) \div 10]
        lw == al.length_weights
        blended == [k \in DOMAIN lw \cup measured |->
            IF k \in measured
            THEN IF k \in DOMAIN lw
                 THEN blend(lw[k], new_weights[k])
                 ELSE new_weights[k]
            ELSE lw[k]]
        with_defaults == [k \in DOMAIN blended \cup DOMAIN LENGTH_DISTRIBUTION |->
            IF k \in DOMAIN blended THEN blended[k] ELSE LENGTH_DISTRIBUTION[k]]
    IN IF measured = {} THEN al
       ELSE IF total_score <= 0 THEN al
       ELSE [al EXCEPT !.length_weights = with_defaults]

\* (1 - LEARNING_RATE) * current + LEARNING_RATE * matching / (matching + other)
blend_probability(current, matching, other) ==
    IF matching + other > 0
    THEN blend(current, Fixed(matching, matching + other))
    ELSE current

_adapt_character_probabilities(al) ==
    LET pw == al.pattern_weights
        weight_of(S) == NatSum(pw, S)
        types == {k \in DOMAIN pw : k[1] = "type"}
        with_upper == {k \in types : \E i \in 1..Len(k[2]) : k[2][i] = "U"}
        underscore_success == weight_of({k \in DOMAIN pw : k = <<"has_underscore", TRUE>>})
        non_underscore_success == weight_of({k \in DOMAIN pw : k = <<"has_underscore", FALSE>>})
        numeric_success == weight_of({k \in DOMAIN pw : k = <<"has_number", TRUE>>})
        non_numeric_success == weight_of({k \in DOMAIN pw : k = <<"has_number", FALSE>>})
        uppercase_success == weight_of(with_upper)
        non_uppercase_success == weight_of(types \ with_upper)
    IN IF DOMAIN pw = {} THEN al
       ELSE [al EXCEPT
               !.underscore_probability =
                   blend_probability(@, underscore_success, non_underscore_success),
               !.numeric_probability =
                   blend_probability(@, numeric_success, non_numeric_success),
               !.uppercase_probability =
                   blend_probability(@, uppercase_success, non_uppercase_success)]

\* a slip: the gate counts the error outcomes too
adapt_gate_counts_errors(al) == Len(al.recent_checks) >= MIN_VALID_CHECKS

\* whether adapt() gets past its three early returns
adapt_gate(al) ==
    /\ Len(al.recent_checks) > 0
    /\ Len(valid_checks(al.recent_checks)) > 0
    /\ Len(valid_checks(al.recent_checks)) >= MIN_VALID_CHECKS

\* the object after adapt(); adapt() then calls save_state() when the gate
\* was passed
adapt(al) ==
    IF adapt_gate(al)
    THEN _adapt_character_probabilities(
             _adapt_length_weights(
                 _adapt_parallel_checks(al, success_rate(al.recent_checks))))
    ELSE al

(***************************************************************************)
(* save_state / _load_state: the snapshot as JSON text.  json.dump writes  *)
(* an int key of a dict as the decimal text of the int, an int value as    *)
(* its decimal text and a float as repr(float): the integer part, a point  *)
(* and the fraction digits.  _load_state reads the keys back with int()    *)
(* and the values with int() and float().                                  *)
(***************************************************************************)
DecimalDigits == <<"0", "1", "2", "3", "4", "5", "6", "7", "8", "9">>

RECURSIVE int_to_str(_)
\* str(n) for n >= 0
int_to_str(n) ==
    IF n < 10 THEN <<DecimalDigits[n + 1]>>
    ELSE int_to_str(n \div 10) \o <<DecimalDigits[(n % 10) + 1]>>

digit_value(c) == CHOOSE v \in 0..9 : DecimalDigits[v + 1] = c

RECURSIVE str_to_int(_)
\* int(s) for a decimal text s
str_to_int(s) ==
    IF Len(s) = 0 THEN 0
    ELSE 10 * str_to_int(SubSeq(s, 1, Len(s) - 1)) + digit_value(s[Len(s)])

\* the three fraction digits of a fixed-point number
fraction_digits(x) ==
    LET f == x % Thousandths
    IN <<DecimalDigits[(f \div 100) + 1], DecimalDigits[((f \div 10) % 10) + 1],
         DecimalDigits[(f % 10) + 1]>>

\* repr(x) of a float x >= 0
float_repr(x) == int_to_str(x \div Thousandths) \o <<".">> \o fraction_digits(x)

\* the position of the point in a float's text
point_index(text) == CHOOSE i \in 1..Len(text) : text[i] = "."

\* a slip: a value is read back keeping only its integer part
float_parse_as_int(text) ==
    str_to_int(SubSeq(text, 1, point_index(text) - 1)) * Thousandths

\* float(text)
float_parse(text) ==
    str_to_int(SubSeq(text, 1, point_index(text) - 1)) * Thousandths
    + str_to_int(SubSeq(text, point_index(text) + 1, Len(text)))

\* int(k) for a key of state['length_weights']
load_length_key(ks) == str_to_int(ks)

\* the object json.dump writes in save_state
json_dump(al) ==
    [length_weights |->
        [ks \in {int_to_str(k) : k \in DOMAIN al.length_weights} |->
            float_repr(al.length_weights[
                CHOOSE k \in DOMAIN al.length_weights : int_to_str(k) = ks])],
     parallel_checks |-> int_to_str(al.parallel_checks),
     pattern_weights |->
        [k \in DOMAIN al.pattern_weights |->
            float_repr(al.pattern_weights[k])],
     underscore_probability |-> float_repr(al.underscore_probability),
     numeric_probability |-> float_repr(al.numeric_probability),
     uppercase_probability |-> float_repr(al.uppercase_probability)]

\* the file after save_state(): <<>> is "no file"
save_state(al) == <<json_dump(al)>>

\* the object after _load_state() reads file
_load_state(al, file) ==
    IF file = <<>> THEN al
    ELSE LET state == file[1]
         IN [al EXCEPT
               !.length_weights =
                   [k \in {load_length_key(ks) : ks \in DOMAIN state.length_weights} |->
                       float_parse(state.length_weights[
                           CHOOSE ks \in DOMAIN state.length_weights :
                               load_length_key(ks) = k])],
               !.parallel_checks = str_to_int(state.parallel_checks),
               !.pattern_weights =
                   [k \in DOMAIN state.pattern_weights |->
                       float_parse(state.pattern_weights[k])],
               !.underscore_probability = float_parse(state.underscore_probability),
               !.numeric_probability = float_parse(state.numeric_probability),
               !.uppercase_probability = float_parse(state.uppercase_probability)]

\* the six fields a snapshot holds
parameters(al) ==
    <<al.parallel_checks, al.length_weights, al.pattern_weights,
      al.underscore_probability, al.numeric_probability, al.uppercase_probability>>

(***************************************************************************)
(* bot.py, the length command: the weights it installs for the range       *)
(* min_length..max_length before it calls save_state() and adapt().        *)
(***************************************************************************)
length_command_weights(min_length, max_length) ==
    [length \in 3..20 |->
        IF min_length <= length /\ length <= max_length
        THEN IF length <= 4 THEN Fixed(50, 1)
             ELSE IF length <= 6 THEN Fixed(30, 1) ELSE Fixed(20, 1)
        ELSE Fixed(1, 1)]

(***************************************************************************)
(* The credential pool: get_next_cookie, _select_best_cookie and           *)
(* report_cookie_error of AdaptiveLearning, get_cookies_for_request of     *)
(* roblox_api.  Cookie indices are 0-based as in the code; cookie_status   *)
(* is a sequence, so the status of cookie i is cookie_status[i + 1].       *)
(***************************************************************************)
in_cooldown(status, t) == status.cooldown_until > t

\* success_count / max(1, success_count + error_count) of a strictly less
\* than that of b
ratio_less(a, b) ==
    a.success_count * Max(1, b.success_count + b.error_count)
        < b.success_count * Max(1, a.success_count + a.error_count)

\* a slip: the best cookie is taken among all cookies, in cooldown or not
_select_best_cookie_unfiltered(al, t) ==
    LET all == 0..(Len(al.cookies) - 1)
        best == CHOOSE i \in all :
            /\ \A j \in all :
                   ~ratio_less(al.cookie_status[i + 1], al.cookie_status[j + 1])
            /\ \A j \in all :
                   j < i => ratio_less(al.cookie_status[j + 1], al.cookie_status[i + 1])
    IN [index |-> best, al |-> [al EXCEPT !.current_cookie_index = best]]

\* min() and max() return the first of several extremal elements
_select_best_cookie(al, t) ==
    LET all == 0..(Len(al.cookies) - 1)
        available_cookies == {i \in all : al.cookie_status[i + 1].cooldown_until <= t}
        shortest_cooldown == CHOOSE i \in all :
            /\ \A j \in all : al.cookie_status[i + 1].cooldown_until
                                 <= al.cookie_status[j + 1].cooldown_until
            /\ \A j \in all : j < i => al.cookie_status[i + 1].cooldown_until
                                          < al.cookie_status[j + 1].cooldown_until
        best == CHOOSE i \in available_cookies :
            /\ \A j \in available_cookies :
                   ~ratio_less(al.cookie_status[i + 1], al.cookie_status[j + 1])
            /\ \A j \in available_cookies :
                   j < i => ratio_less(al.cookie_status[j + 1], al.cookie_status[i + 1])
    IN IF available_cookies = {}
       THEN [index |-> shortest_cooldown, al |-> al]
       ELSE [index |-> best, al |-> [al EXCEPT !.current_cookie_index = best]]

get_next_cookie(al, t) ==
    IF Len(al.cookies) <= 1 THEN [index |-> 0, al |-> al]
    ELSE LET i == al.current_cookie_index + 1
             current_status == al.cookie_status[i]
         IN IF /\ current_status.cooldown_until > t
               /\ \E j \in 1..Len(al.cookie_status) :
                      al.cookie_status[j].cooldown_until <= t
            THEN _select_best_cookie(al, t)
            ELSE IF current_status.error_count >= ERROR_THRESHOLD
            THEN _select_best_cookie(
                     [al EXCEPT !.cookie_status[i].cooldown_until = t + COOKIE_COOLDOWN,
                                !.cookie_status[i].error_count = 0], t)
            ELSE [index |-> al.current_cookie_index, al |-> al]

report_cookie_error(al, cookie_index, t) ==
    IF 0 <= cookie_index /\ cookie_index < Len(al.cookie_status)
    THEN LET i == cookie_index + 1
             counted == al.cookie_status[i].error_count + 1
         IN IF counted >= ERROR_THRESHOLD
            THEN [al EXCEPT !.cookie_status[i].cooldown_until = t + COOKIE_COOLDOWN,
                            !.cookie_status[i].error_count = 0]
            ELSE [al EXCEPT !.cookie_status[i].error_count = counted]
    ELSE al

\* roblox_api.get_cookies_for_request: the indices of the cookies it
\* returns (ROBLOX_COOKIES and adaptive_system.cookies hold the same
\* cookies in the same order); make_http_request sends random.choice of
\* them.  With no cookie the list is [""], which names no credential.
get_cookies_for_request(al, t) ==
    LET all == 0..(Len(al.cookies) - 1)
        available_cookies == {i \in all : al.cookie_status[i + 1].cooldown_until <= t}
    IN IF available_cookies = {} THEN all ELSE available_cookies

\* the time.sleep calls of get_cookies_for_request, in ms: for each cookie
\* out of cooldown with at least 10 requests and a success ratio under 0.4,
\* 2 * (1 + (0.4 - ratio) * 10) seconds, rounded down to a millisecond
cookie_sleep(status) ==
    LET total_requests == status.success_count + status.error_count
    IN IF total_requests >= 10 /\ 10 * status.success_count < 4 * total_requests
       THEN 10000 - ((20000 * status.success_count) \div total_requests)
       ELSE 0

get_cookies_sleep(al, t) ==
    NatSum([i \in 0..(Len(al.cookies) - 1) |->
               IF al.cookie_status[i + 1].cooldown_until <= t
               THEN cookie_sleep(al.cookie_status[i + 1]) ELSE 0],
           0..(Len(al.cookies) - 1))

(***************************************************************************)
(* roblox_api.py: the endpoint table as the module creates it when no      *)
(* cookie is configured (with cookies the module rescales the delays once, *)
(* at import).  Endpoint indices are 0-based.                              *)
(***************************************************************************)
NUM_ENDPOINTS == 4
Endpoints == 0..(NUM_ENDPOINTS - 1)
InitialDelay == (0 :> 500) @@ (1 :> 500) @@ (2 :> 600) @@ (3 :> 700)

ApiEndpointsInit ==
    [i \in Endpoints |->
        [delay |-> InitialDelay[i], rate_limit_count |-> 0, last_request |-> 0,
         success_streak |-> 0, enabled |-> TRUE]]

(***************************************************************************)
(* The state of each component after construction, for the specifications  *)
(* that do not run it.                                                     *)
(***************************************************************************)
RouterIdle ==
    /\ API_ENDPOINTS = ApiEndpointsInit
    /\ current_api_index = 0
    /\ memory_cache = <<>>
    /\ checked_usernames = <<>>
    /\ calls = <<>>

ControllerIdle ==
    /\ adaptive_system = AdaptiveLearningInit(0, 0)
    /\ state_file = <<>>
    /\ saved_parameters = <<>>

GeneratorIdle == gen = [pc |-> "idle"]

routerVars == <<API_ENDPOINTS, current_api_index, memory_cache,
                checked_usernames, calls>>
controllerVars == <<adaptive_system, state_file, saved_parameters>>

(***************************************************************************)
(* SpecAdapt: the adaptive controller.  A run starts from a controller     *)
(* that has recorded a history of outcomes (nTaken not-available results,  *)
(* then nAvailable available ones, then nErrors errors), and goes on with  *)
(* record_check, adapt, the bot's length command and process restarts.     *)
(***************************************************************************)
TakenName == <<"a", "b", "c">>
AvailableName == <<"A", "_", "1", "b">>
OtherName == <<"a", "1", "c", "b", "a">>

HistoryTaken == {0, 19, 24, 30, 100}
HistoryAvailable == {0, 6}
HistoryErrors == {0, 4}

Outcome(username, is_available, error) ==
    [username |-> username, is_available |-> is_available, error |-> error]

History(nTaken, nAvailable, nErrors) ==
    [i \in 1..nTaken |-> Outcome(TakenName, FALSE, FALSE)]
    \o [i \in 1..nAvailable |-> Outcome(AvailableName, TRUE, FALSE)]
    \o [i \in 1..nErrors |-> Outcome(TakenName, FALSE, TRUE)]

RECURSIVE Replay(_, _, _)
\* the object after the record_check calls of history, in order: those of
\* its first half, which leave recent_checks with an entry, then those of
\* its second half
Replay(al, history, t) ==
    IF history = <<>> THEN al
    ELSE IF Len(history) = 1
    THEN record_check(al, history[1].username, history[1].is_available,
                      history[1].error, t)
    ELSE LET half == Len(history) \div 2
             first == Replay(al, SubSeq(history, 1, half), t)
         IN IF Len(first.recent_checks) > 0
            THEN Replay(first, SubSeq(history, half + 1, Len(history)), t)
            ELSE first

\* the outcomes the pipeline reports: available, not available, error
ReportedOutcomes ==
    {Outcome(u, a, FALSE) : u \in {TakenName, AvailableName, OtherName}, a \in BOOLEAN}
    \cup {Outcome(u, FALSE, TRUE) : u \in {TakenName, AvailableName, OtherName}}

RECURSIVE AdaptTimes(_, _)
\* the object after k calls of adapt()
AdaptTimes(al, k) == IF k = 0 THEN al ELSE AdaptTimes(adapt(al), k - 1)

\* adapt() calls of an earlier run of the process, which had no cookie and
\* left the state file behind; 0 is "no earlier run"
EarlierAdapts == {0, 1, 7}

EarlierRun(k) ==
    AdaptTimes(Replay(AdaptiveLearningInit(0, 0), History(30, 6, 0), 0), k)

AdaptInit ==
    /\ RouterIdle
    /\ GeneratorIdle
    /\ now = 0
    /\ \E k \in EarlierAdapts :
          /\ state_file = IF k = 0 THEN <<>> ELSE save_state(EarlierRun(k))
          /\ saved_parameters = IF k = 0 THEN <<>> ELSE parameters(EarlierRun(k))
    /\ \E n \in 0..MaxCookies, nt \in HistoryTaken, na \in HistoryAvailable,
          ne \in HistoryErrors :
          adaptive_system =
              Replay(_load_state(AdaptiveLearningInit(n, 0), state_file),
                     History(nt, na, ne), 0)
    /\ obs = [op |-> "init"]
    /\ budget = [records |-> MaxRecords, adapts |-> MaxAdapts,
                 commands |-> MaxCommands, restarts |-> MaxRestarts]

AdaptRecordCheck ==
    /\ budget.records > 0
    /\ \E o \in ReportedOutcomes :
          /\ adaptive_system' = record_check(adaptive_system, o.username,
                                             o.is_available, o.error, now)
          /\ obs' = [op |-> "record_check", before |-> adaptive_system, outcome |-> o]
    /\ budget' = [budget EXCEPT !.records = @ - 1]
    /\ UNCHANGED <<routerVars, now, state_file, saved_parameters, gen>>

\* adapt(): past the gate it adapts the three groups of parameters and
\* calls save_state()
AdaptCall ==
    /\ budget.adapts > 0
    /\ adaptive_system' = adapt(adaptive_system)
    /\ IF adapt_gate(adaptive_system)
       THEN /\ state_file' = save_state(adaptive_system')
            /\ saved_parameters' = parameters(adaptive_system')
       ELSE UNCHANGED <<state_file, saved_parameters>>
    /\ obs' = [op |-> "adapt", before |-> adaptive_system,
               ran |-> adapt_gate(adaptive_system)]
    /\ budget' = [budget EXCEPT !.adapts = @ - 1]
    /\ UNCHANGED <<routerVars, now, gen>>

\* bot.py, the length command: install the weights, save_state(), adapt()
LengthCommand ==
    /\ budget.commands > 0
    /\ \E range \in {<<3, 4>>, <<5, 12>>} :
          LET installed == [adaptive_system EXCEPT
                               !.length_weights =
                                   length_command_weights(range[1], range[2])]
          IN /\ adaptive_system' = adapt(installed)
             /\ state_file' = save_state(adaptive_system')
             /\ saved_parameters' = parameters(adaptive_system')
             /\ obs' = [op |-> "length_command", before |-> adaptive_system,
                        ran |-> adapt_gate(installed)]
    /\ budget' = [budget EXCEPT !.commands = @ - 1]
    /\ UNCHANGED <<routerVars, now, gen>>

\* the process ends and starts again: __init__ with the same environment,
\* which ends with _load_state()
Restart ==
    /\ budget.restarts > 0
    /\ adaptive_system' =
           _load_state(AdaptiveLearningInit(Len(adaptive_system.cookies), now),
                       state_file)
    /\ obs' = [op |-> "restart", before |-> adaptive_system,
               loaded |-> state_file # <<>>]
    /\ budget' = [budget EXCEPT !.restarts = @ - 1]
    /\ UNCHANGED <<routerVars, now, state_file, saved_parameters, gen>>

AdaptNext == AdaptRecordCheck \/ AdaptCall \/ LengthCommand \/ Restart

SpecAdapt == AdaptInit /\ [][AdaptNext]_vars

(***************************************************************************)
(* Properties of the adaptive controller (SpecAdapt).                      *)
(***************************************************************************)

\* C2: in every state of the controller, whether it started from the
\* defaults or was restored by _load_state, and whatever was recorded in
\* between, MIN_PARALLEL_CHECKS <= parallel_checks <= MAX_PARALLEL_CHECKS.
C2_ConcurrencyBounds ==
    /\ MIN_PARALLEL_CHECKS <= adaptive_system.parallel_checks
    /\ adaptive_system.parallel_checks <= MAX_PARALLEL_CHECKS

\* adapt() got past its gate in a controller with a cookie, where
\* _adapt_parallel_checks takes its except branch, and changed a
\* parallel_checks that had been restored from the state file
C2_Witness ==
    /\ obs.op = "adapt"
    /\ obs.ran
    /\ Len(adaptive_system.cookies) > 0
    /\ obs.before.parallel_checks # DEFAULT_PARALLEL_CHECKS
    /\ adaptive_system.parallel_checks # obs.before.parallel_checks

\* C9: after a restart that found a state file, the six saved fields of
\* the controller are exactly the values save_state() last wrote, and the
\* keys of length_weights are integers.
C9_PersistenceRoundTrip ==
    (obs.op = "restart" /\ obs.loaded) =>
        /\ parameters(adaptive_system) = saved_parameters
        /\ DOMAIN adaptive_system.length_weights \subseteq Int

\* a restart restored values that adapt() had moved away from the defaults:
\* fractional weights and probabilities, and learned patterns
C9_Witness ==
    /\ obs.op = "restart"
    /\ obs.loaded
    /\ adaptive_system.underscore_probability # Fixed(1, 5)
    /\ adaptive_system.underscore_probability % Thousandths # 0
    /\ adaptive_system.length_weights # LENGTH_DISTRIBUTION
    /\ \E k \in DOMAIN adaptive_system.length_weights :
           adaptive_system.length_weights[k] % Thousandths # 0
    /\ DOMAIN adaptive_system.pattern_weights # {}
    /\ adaptive_system.parallel_checks # DEFAULT_PARALLEL_CHECKS

\* the scenario of C10 in the controller adapt() was called on
LowSuccessScenario(al) ==
    /\ Len(al.recent_checks) = 30
    /\ \A i \in 1..Len(al.recent_checks) :
           ~al.recent_checks[i].is_available /\ ~al.recent_checks[i].error
    /\ al.parallel_checks = 10

\* C10: with 30 outcomes recorded, none available and none errors, and
\* parallel_checks = 10, one adapt() call leaves parallel_checks strictly
\* smaller than 10 and not below MIN_PARALLEL_CHECKS, for any number of
\* configured cookies.
C10_LowSuccessDecreases ==
    (obs.op = "adapt" /\ LowSuccessScenario(obs.before)) =>
        /\ adaptive_system.parallel_checks < 10
        /\ adaptive_system.parallel_checks >= MIN_PARALLEL_CHECKS

\* 30 outcomes recorded, 6 of them available and none an error (success
\* rate 0.2), and parallel_checks = 10
HighSuccessScenario(al) ==
    /\ Len(al.recent_checks) = 30
    /\ Cardinality({i \in 1..30 : al.recent_checks[i].is_available}) = 6
    /\ \A i \in 1..30 : ~al.recent_checks[i].error
    /\ al.parallel_checks = 10

\* C11: with 30 outcomes recorded, 6 available and no errors,
\* parallel_checks = 10 and MAX_PARALLEL_CHECKS = 50, one adapt() call
\* leaves parallel_checks greater than 10, for any number of configured
\* cookies.
C11_HighSuccessIncreases ==
    (obs.op = "adapt" /\ HighSuccessScenario(obs.before)) =>
        adaptive_system.parallel_checks > 10

\* the step is a call of adapt()
adapt_called == obs'.op = "adapt" /\ budget'.adapts < budget.adapts

\* C25 (recompute gate): whenever the window holds fewer than 20 non-error
\* outcomes, adapt() leaves parallel_checks, length_weights,
\* underscore_probability, numeric_probability and uppercase_probability
\* unchanged and writes no snapshot.
C25_RecomputeGate ==
    [][(/\ adapt_called
        /\ Len(valid_checks(adaptive_system.recent_checks)) < MIN_VALID_CHECKS)
       => /\ adaptive_system'.parallel_checks = adaptive_system.parallel_checks
          /\ adaptive_system'.length_weights = adaptive_system.length_weights
          /\ adaptive_system'.underscore_probability
                 = adaptive_system.underscore_probability
          /\ adaptive_system'.numeric_probability
                 = adaptive_system.numeric_probability
          /\ adaptive_system'.uppercase_probability
                 = adaptive_system.uppercase_probability
          /\ state_file' = state_file]_vars

\* adapt() was called on a window of 20 or more outcomes of which 19 are
\* not errors, and returned at its gate
C25_Witness ==
    /\ obs.op = "adapt"
    /\ Len(obs.before.recent_checks) >= MIN_VALID_CHECKS
    /\ Len(valid_checks(obs.before.recent_checks)) = MIN_VALID_CHECKS - 1
    /\ adaptive_system = obs.before

\* the recent success rate r and error rate e of al are such that neither
\* r < 0.01 nor (r >= 0.05 and e < 0.1) holds
HoldScenario(al) ==
    LET r == success_rate(al.recent_checks)
        e == _error_rate(al)
    IN /\ ~RatLess(r, <<1, 100>>)
       /\ ~(~RatLess(r, <<1, 20>>) /\ RatLess(e, <<1, 10>>))

\* C26 (concurrency hold): when adapt() runs with recent success rate r and
\* error rate e such that neither r < 0.01 nor (r >= 0.05 and e < 0.1)
\* holds, parallel_checks after the call equals parallel_checks before it.
C26_ConcurrencyHold ==
    (obs.op = "adapt" /\ obs.ran /\ HoldScenario(obs.before)) =>
        adaptive_system.parallel_checks = obs.before.parallel_checks

\* C27 (sliding window content): after any sequence of record_check calls,
\* recent_checks holds at most 100 entries and each per-length window at
\* most 50, every entry of recent_checks is a non-error outcome, and
\* recording an error outcome leaves the non-error outcomes of recent_checks
\* as they were: it never evicts one.
C27_SlidingWindow ==
    /\ Len(adaptive_system.recent_checks) <= SUCCESS_WINDOW_SIZE
    /\ \A i \in DOMAIN adaptive_system.recent_checks :
           ~adaptive_system.recent_checks[i].error
    /\ \A length \in DOMAIN adaptive_system.recent_lengths :
           Len(adaptive_system.recent_lengths[length]) <= LENGTH_WINDOW_SIZE
    /\ (obs.op = "record_check" /\ obs.outcome.error) =>
           valid_checks(adaptive_system.recent_checks)
               = valid_checks(obs.before.recent_checks)

\* the lengths of al that have fewer than MIN_LENGTH_SAMPLES entries in
\* recent_lengths, or none
few_samples(al) ==
    {length \in DOMAIN al.length_weights :
        \/ length \notin DOMAIN al.recent_lengths
        \/ Len(al.recent_lengths[length]) < MIN_LENGTH_SAMPLES}

\* C28 (length-weight frame): when adapt() has run _adapt_length_weights,
\* every length that had a weight still has one, every length with fewer
\* than 5 samples in recent_lengths keeps exactly its prior weight, and
\* every weight is non-negative.
C28_LengthWeightFrame ==
    (obs.op = "adapt" /\ obs.ran) =>
        /\ DOMAIN obs.before.length_weights \subseteq DOMAIN adaptive_system.length_weights
        /\ \A length \in few_samples(obs.before) :
               adaptive_system.length_weights[length] = obs.before.length_weights[length]
        /\ \A length \in DOMAIN adaptive_system.length_weights :
               adaptive_system.length_weights[length] >= 0

\* adapt() has changed the weight of a length while another length had
\* between 1 and 4 samples and a positive weight
C28_Witness ==
    /\ obs.op = "adapt"
    /\ obs.ran
    /\ \E length \in DOMAIN obs.before.length_weights :
           adaptive_system.length_weights[length] # obs.before.length_weights[length]
    /\ \E length \in few_samples(obs.before) :
           /\ length \in DOMAIN obs.before.recent_lengths
           /\ Len(obs.before.recent_lengths[length]) > 0
           /\ obs.before.length_weights[length] > 0

(***************************************************************************)
(* SpecCookie: the cookie pool.  A run starts from a pool whose current    *)
(* cookie has a history of outcomes, and goes on with outcome reports      *)
(* (record_check, report_cookie_error), the two selections                 *)
(* (get_next_cookie, and get_cookies_for_request with the random.choice    *)
(* make_http_request makes among its result) and the passing of time.      *)
(***************************************************************************)
CookieHistoryAvailable == {0, 1}
CookieHistoryErrors == {0, 4, 9}
\* earlier report_cookie_error calls for the cookie after the current one
CookieHistoryReports == {0, 4}

RECURSIVE ReplayReports(_, _, _, _)
\* the object after k calls report_cookie_error(cookie_index)
ReplayReports(al, cookie_index, k, t) ==
    IF k = 0 THEN al
    ELSE ReplayReports(report_cookie_error(al, cookie_index, t), cookie_index, k - 1, t)
\* the clock steps, in ms
ClockSteps == {1000, COOKIE_COOLDOWN}

CookieInit ==
    /\ RouterIdle
    /\ GeneratorIdle
    /\ now = 0
    /\ state_file = <<>>
    /\ saved_parameters = <<>>
    /\ \E n \in 0..MaxCookies, na \in CookieHistoryAvailable,
          ne \in CookieHistoryErrors, nr \in CookieHistoryReports :
          adaptive_system =
              ReplayReports(Replay(AdaptiveLearningInit(n, 0), History(0, na, ne), 0),
                            1, nr, 0)
    /\ obs = [op |-> "init"]
    /\ budget = [reports |-> MaxReports, selections |-> MaxSelections,
                 ticks |-> MaxTicks]

CookieRecordCheck ==
    /\ budget.reports > 0
    /\ \E o \in {Outcome(TakenName, FALSE, FALSE), Outcome(TakenName, TRUE, FALSE),
                 Outcome(TakenName, FALSE, TRUE)} :
          /\ adaptive_system' = record_check(adaptive_system, o.username,
                                             o.is_available, o.error, now)
          /\ obs' = [op |-> "record_check", before |-> adaptive_system, outcome |-> o]
    /\ budget' = [budget EXCEPT !.reports = @ - 1]
    /\ UNCHANGED <<routerVars, now, state_file, saved_parameters, gen>>

ReportCookieError ==
    /\ budget.reports > 0
    /\ \E cookie_index \in 0..(Len(adaptive_system.cookies) - 1) :
          /\ adaptive_system' = report_cookie_error(adaptive_system, cookie_index, now)
          /\ obs' = [op |-> "report_cookie_error", before |-> adaptive_system,
                     cookie_index |-> cookie_index]
    /\ budget' = [budget EXCEPT !.reports = @ - 1]
    /\ UNCHANGED <<routerVars, now, state_file, saved_parameters, gen>>

GetNextCookie ==
    /\ budget.selections > 0
    /\ LET r == get_next_cookie(adaptive_system, now)
       IN /\ adaptive_system' = r.al
          /\ obs' = [op |-> "get_next_cookie", before |-> adaptive_system,
                     time |-> now, returned |-> r.index]
    /\ budget' = [budget EXCEPT !.selections = @ - 1]
    /\ UNCHANGED <<routerVars, now, state_file, saved_parameters, gen>>

\* the cookie a request is sent with: random.choice(get_cookies_for_request()),
\* after the sleeps of get_cookies_for_request
GetCookiesForRequest ==
    /\ budget.selections > 0
    /\ Len(adaptive_system.cookies) > 0
    /\ \E cookie \in get_cookies_for_request(adaptive_system, now) :
          obs' = [op |-> "get_cookies_for_request", before |-> adaptive_system,
                  time |-> now, returned |-> cookie]
    /\ now' = now + get_cookies_sleep(adaptive_system, now)
    /\ budget' = [budget EXCEPT !.selections = @ - 1]
    /\ UNCHANGED <<routerVars, adaptive_system, state_file, saved_parameters, gen>>

CookieTick ==
    /\ budget.ticks > 0
    /\ \E dt \in ClockSteps : now' = now + dt
    /\ obs' = [op |-> "tick"]
    /\ budget' = [budget EXCEPT !.ticks = @ - 1]
    /\ UNCHANGED <<routerVars, adaptive_system, state_file, saved_parameters, gen>>

CookieNext ==
    \/ CookieRecordCheck
    \/ ReportCookieError
    \/ GetNextCookie
    \/ GetCookiesForRequest
    \/ CookieTick

SpecCookie == CookieInit /\ [][CookieNext]_vars

\* a selection has just returned a cookie of a pool of two or more while
\* some other cookie was out of cooldown
SelectionWithAlternative(ops) ==
    /\ obs.op \in ops
    /\ Len(adaptive_system.cookies) >= 2
    /\ \E j \in 0..(Len(adaptive_system.cookies) - 1) :
           /\ j # obs.returned
           /\ ~in_cooldown(adaptive_system.cookie_status[j + 1], obs.time)

\* C5: a selection never returns a cookie that has ERROR_THRESHOLD errors
\* since its last cooldown, or is in the cooldown they led to, while
\* another cookie is out of cooldown.
C5_CooldownMonotonicity ==
    SelectionWithAlternative({"get_next_cookie", "get_cookies_for_request"}) =>
        /\ obs.before.cookie_status[obs.returned + 1].error_count < ERROR_THRESHOLD
        /\ ~in_cooldown(adaptive_system.cookie_status[obs.returned + 1], obs.time)

\* C6: for a pool of two or more cookies, get_next_cookie() never returns a
\* cookie whose cooldown_until > now while some other cookie has
\* cooldown_until <= now.
C6_CredentialInvariant ==
    SelectionWithAlternative({"get_next_cookie"}) =>
        adaptive_system.cookie_status[obs.returned + 1].cooldown_until <= obs.time

\* get_next_cookie() was called while the current cookie was in cooldown
\* and returned another one
C6_Witness ==
    /\ obs.op = "get_next_cookie"
    /\ Len(adaptive_system.cookies) >= 2
    /\ in_cooldown(obs.before.cookie_status[obs.before.current_cookie_index + 1],
                   obs.time)
    /\ obs.returned # obs.before.current_cookie_index

\* whether cookie index has the smallest cooldown_until of the pool al
soonest_to_recover(al, index) ==
    \A j \in 1..Len(al.cookie_status) :
        al.cookie_status[index + 1].cooldown_until <= al.cookie_status[j].cooldown_until

\* C19 (credential exhaustion): when every cookie of a pool of two or more
\* has cooldown_until > now, get_next_cookie() returns the cookie with the
\* smallest cooldown_until (as it was at the call, or as the call left it).
C19_CredentialExhaustion ==
    (/\ obs.op = "get_next_cookie"
     /\ Len(obs.before.cookies) >= 2
     /\ \A j \in 1..Len(obs.before.cookie_status) :
            obs.before.cookie_status[j].cooldown_until > obs.time)
    => \/ soonest_to_recover(obs.before, obs.returned)
       \/ soonest_to_recover(adaptive_system, obs.returned)

\* C30 (error threshold): after every outcome report (record_check, or
\* report_cookie_error) every cookie has error_count < ERROR_THRESHOLD: a
\* report that brings the count to the threshold starts the cooldown and
\* resets the count.
C30_ErrorThreshold ==
    obs.op \in {"record_check", "report_cookie_error"} =>
        \A i \in 1..Len(adaptive_system.cookie_status) :
            adaptive_system.cookie_status[i].error_count < ERROR_THRESHOLD

(***************************************************************************)
(* SpecSelect: a pool of three cookies that has been in use.  Cookie 0     *)
(* was the current cookie until its errors reached ERROR_THRESHOLD and     *)
(* get_next_cookie() moved on to cookie 1, which then had its own          *)
(* outcomes; cookie 2 has not been used.  The run goes on like one of      *)
(* SpecCookie.                                                             *)
(***************************************************************************)
\* the times, in ms, of the outcomes of cookie 0 and of cookie 1
FirstUse == 1000
SecondUse == 2000
\* available outcomes of cookie 0 and of cookie 1 in the past
SelectHistoryAvailable == {0, 1}

\* the pool after cookie 0 had one taken name, successes available names
\* and ERROR_THRESHOLD errors, get_next_cookie() was called, and the cookie
\* it returned had one taken name and failures errors
UsedPool(successes, failures) ==
    LET first == Replay(AdaptiveLearningInit(3, 0),
                        History(1, successes, ERROR_THRESHOLD), FirstUse)
        switched == get_next_cookie(first, FirstUse).al
    IN Replay(switched, History(1, 0, failures), SecondUse)

SelectInit ==
    /\ RouterIdle
    /\ GeneratorIdle
    /\ now = SecondUse
    /\ state_file = <<>>
    /\ saved_parameters = <<>>
    /\ \E successes \in SelectHistoryAvailable, failures \in {0, ERROR_THRESHOLD} :
          adaptive_system = UsedPool(successes, failures)
    /\ obs = [op |-> "init"]
    /\ budget = [reports |-> MaxReports, selections |-> MaxSelections,
                 ticks |-> MaxTicks]

SpecSelect == SelectInit /\ [][CookieNext]_vars

\* get_next_cookie(al, t) reaches _select_best_cookie, which finds a cookie
\* out of cooldown
selection_made(al, t) ==
    /\ Len(al.cookies) >= 2
    /\ LET current_status == al.cookie_status[al.current_cookie_index + 1]
       IN \/ /\ current_status.cooldown_until > t
             /\ \E j \in 1..Len(al.cookie_status) :
                    al.cookie_status[j].cooldown_until <= t
          \/ /\ current_status.cooldown_until <= t
             /\ current_status.error_count >= ERROR_THRESHOLD
             /\ \E j \in 1..Len(al.cookie_status) :
                    /\ j # al.current_cookie_index + 1
                    /\ al.cookie_status[j].cooldown_until <= t

\* C29 (credential preference): when get_next_cookie() selects among the
\* cookies that are not in cooldown, no such cookie has a higher ratio
\* success_count / (success_count + error_count) than the returned one, and
\* none with the same ratio has an older last_used.
C29_CredentialPreference ==
    (obs.op = "get_next_cookie" /\ selection_made(obs.before, obs.time)) =>
        LET status == adaptive_system.cookie_status
            returned == status[obs.returned + 1]
        IN \A j \in 1..Len(status) :
               status[j].cooldown_until <= obs.time =>
                   /\ ~ratio_less(returned, status[j])
                   /\ ~ratio_less(status[j], returned) =>
                          returned.last_used <= status[j].last_used

(***************************************************************************)
(* SpecValidate: validate_username applied to one input: any string of up  *)
(* to MaxShortLen characters, or a string of 19 to 21 characters made of a *)
(* short string padded with letters before or after it.                    *)
(***************************************************************************)
InputChars == ascii_letters \cup digits \cup {Underscore} \cup OtherChars

LongInputs ==
    {s \o Rep("a", n - Len(s)) : s \in StringsOver(InputChars, 1, 2), n \in 19..21}
    \cup {Rep("a", n - Len(s)) \o s : s \in StringsOver(InputChars, 1, 2), n \in 19..21}

ValidateInputs == StringsOver(InputChars, 0, MaxShortLen) \cup LongInputs

ValidateInit ==
    /\ RouterIdle
    /\ ControllerIdle
    /\ now = 0
    /\ \E s \in ValidateInputs : gen = [pc |-> "called", username |-> s]
    /\ obs = [op |-> "init"]
    /\ budget = [calls |-> 1]

Validate ==
    /\ gen.pc = "called"
    /\ gen' = [pc |-> "validated", username |-> gen.username,
               result |-> validate_username(gen.username)]
    /\ obs' = [op |-> "validate_username"]
    /\ budget' = [budget EXCEPT !.calls = @ - 1]
    /\ UNCHANGED <<routerVars, controllerVars, now>>

ValidateNext == Validate

SpecValidate == ValidateInit /\ [][ValidateNext]_vars

\* the rules of a valid username, each stated on its own
LengthRule(s) == 3 <= Len(s) /\ Len(s) <= 20
CharacterRule(s) ==
    \A i \in 1..Len(s) : s[i] \in ascii_letters \cup digits \cup {Underscore}
UnderscoreCountRule(s) == Cardinality({i \in 1..Len(s) : s[i] = Underscore}) <= 1
UnderscoreEdgeRule(s) == Len(s) > 0 => (s[1] # Underscore /\ s[Len(s)] # Underscore)
NotAllDigitsRule(s) ==
    \E i \in 1..Len(s) : s[i] # Underscore /\ s[i] \notin digits

\* C8: validate_username(s) is true exactly when 3 <= len(s) <= 20, every
\* character is an ASCII letter, a digit or '_', s has at most one '_', s
\* neither starts nor ends with '_', and s without '_' is not made of
\* digits only; 'ab_c' is valid and '_abc', '123' and '1_3' are not.
C8_ValidatorRules ==
    /\ gen.pc = "validated" =>
          (gen.result <=>
              /\ LengthRule(gen.username)
              /\ CharacterRule(gen.username)
              /\ UnderscoreCountRule(gen.username)
              /\ UnderscoreEdgeRule(gen.username)
              /\ NotAllDigitsRule(gen.username))
    /\ gen.pc = "validated" /\ gen.username = <<"a", "b", "_", "c">> => gen.result
    /\ gen.pc = "validated"
       /\ gen.username \in {<<"_", "a", "b", "c">>, <<"1", "2", "3">>,
                            <<"1", "_", "3">>}
       => ~gen.result

\* the validator accepted a 20-character name with an underscore inside
C8_Witness ==
    /\ gen.pc = "validated"
    /\ gen.result
    /\ Len(gen.username) = 20
    /\ count_underscores(gen.username) = 1

(***************************************************************************)
(* database.py: the table checked_usernames is a function from the         *)
(* usernames it holds to their rows.  A call that cannot connect, or whose *)
(* query raises, is "connected = FALSE".                                   *)
(***************************************************************************)
\* timedelta(days=3), in ms
USERNAME_COOLDOWN == 3 * 24 * 60 * 60 * 1000

is_username_in_cooldown(table, username, t, connected) ==
    IF ~connected THEN FALSE
    ELSE /\ username \in DOMAIN table
         /\ table[username].checked_at > t - USERNAME_COOLDOWN

(***************************************************************************)
(* username_generator.py: the random draws.  random.choice and             *)
(* random.choices draw from these members of the populations.              *)
(***************************************************************************)
letters_drawn == {"a", "B"}
alnum_drawn == {"a", "1"}
vowels == {"a", "A"}
consonants == ascii_letters \ vowels
vowels_drawn == {"a"}
consonants_drawn == {"b"}

\* str.upper() of a letter
upper(c) ==
    IF c = "a" THEN "A" ELSE IF c = "b" THEN "B" ELSE IF c = "c" THEN "C" ELSE c

\* ''.join(random.choices(population, k=n))
choices(population, n) ==
    IF n <= MaxDrawLen THEN [1..n -> population]
    ELSE {head \o Rep(c, n - MaxDrawLen) :
              head \in [1..MaxDrawLen -> population], c \in population}

\* s with the character at position i (from 1) replaced by c
replace_at(s, i, c) == [s EXCEPT ![i] = c]

RECURSIVE syllable_lengths(_)
\* the syllable lengths generate_word_like draws for a long name, followed
\* by the length of the final part
syllable_lengths(remaining_length) ==
    IF remaining_length > 3
    THEN UNION {{<<Min(n, remaining_length)>> \o rest :
                    rest \in syllable_lengths(remaining_length - Min(n, remaining_length))}
                : n \in 3..5}
    ELSE {<<remaining_length>>}

RECURSIVE syllables(_)
\* the name made of parts of these lengths: in each part consonants at the
\* even offsets and vowels at the odd ones
syllables(lengths) ==
    IF lengths = <<>> THEN {<<>>}
    ELSE {part \o rest :
            part \in {p \in [1..lengths[1] -> consonants_drawn \cup vowels_drawn] :
                         \A i \in 1..lengths[1] :
                             IF (i - 1) % 2 = 0 THEN p[i] \in consonants_drawn
                             ELSE p[i] \in vowels_drawn},
            rest \in syllables(Tail(lengths))}

\* the positions random.randint(1, len(chars) - 1) is drawn from: the
\* lowest and the highest (counted from 1 here)
positions_drawn(result) == {2, Len(result)}

\* the camelCase step: one or two positions after the first are upper-cased
capitalized(result) ==
    {[i \in 1..Len(result) |->
         IF i = p1 \/ i = p2 THEN upper(result[i]) ELSE result[i]] :
        p1 \in positions_drawn(result), p2 \in positions_drawn(result)}

generate_word_like(length) ==
    LET plain ==
            IF length > 8
            THEN UNION {syllables(ls) : ls \in syllable_lengths(length)}
            ELSE {r \in [1..length -> consonants_drawn \cup vowels_drawn] :
                     \A i \in 1..length :
                         (i - 1) % 2 = 0 => r[i] \in consonants_drawn}
    IN IF length > 6
       THEN plain \cup UNION {capitalized(r) : r \in plain}
       ELSE plain

(***************************************************************************)
(* generate_username_with_length: the arguments after the two clamps, one  *)
(* pass of the attempt loop, and the fallback.                             *)
(***************************************************************************)
MAX_ATTEMPTS == 15

clamp_min_length(min_length) == Max(3, Min(min_length, 20))
clamp_max_length(min_length, max_length) ==
    Max(clamp_min_length(min_length), Min(max_length, 20))

\* the branch "for shorter usernames" of the pattern choice
short_patterns(min_length, max_length) == min_length <= 4 /\ max_length <= 6

\* the outputs of the three patterns both branches share
plain_patterns(min_length, max_length) ==
    UNION {choices(alnum_drawn, n) \cup generate_word_like(n)
               \cup choices(letters_drawn, n) : n \in min_length..max_length}

\* a + '_' + b with len(a) in a_lengths and len(b) in b_lengths
underscore_pattern(a_lengths, b_lengths) ==
    UNION {{a \o <<Underscore>> \o b :
                a \in choices(alnum_drawn, m), b \in choices(alnum_drawn, n)}
           : m \in a_lengths, n \in b_lengths}

\* whether the underscore pattern of the branch for longer usernames calls
\* random.randint(a, b) with a > b, which raises ValueError
underscore_pattern_raises(min_length, max_length) ==
    /\ ~short_patterns(min_length, max_length)
    /\ max_length >= 5
    /\ (2 > max_length \div 2 \/ min_length - 3 > max_length \div 2)

\* the strings pattern_func() can return
pattern_outputs(min_length, max_length) ==
    plain_patterns(min_length, max_length)
    \cup (IF max_length < 5 \/ underscore_pattern_raises(min_length, max_length)
          THEN {}
          ELSE IF short_patterns(min_length, max_length)
          THEN underscore_pattern(1..2, 1..(max_length - 2))
          ELSE underscore_pattern(2..(max_length \div 2),
                                  (min_length - 3)..(max_length \div 2)))

\* "Ensure no underscore at start or end"
fix_edges(username) ==
    IF startswith_underscore(username) \/ endswith_underscore(username)
    THEN {[i \in 1..Len(username) |->
              IF i = 1 /\ username[1] = Underscore THEN first
              ELSE IF i = Len(username) /\ username[i] = Underscore THEN last
              ELSE username[i]] : first \in letters_drawn, last \in letters_drawn}
    ELSE {username}

\* str.find('_'), from 1
first_underscore(username) ==
    CHOOSE i \in 1..Len(username) :
        username[i] = Underscore /\ \A j \in 1..(i - 1) : username[j] # Underscore

\* "Ensure maximum one underscore"
fix_underscores(username) ==
    IF count_underscores(username) > 1
    THEN {v \in [1..Len(username) -> letters_drawn \cup {username[i] : i \in 1..Len(username)}] :
             \A i \in 1..Len(username) :
                 IF i # first_underscore(username) /\ username[i] = Underscore
                 THEN v[i] \in letters_drawn
                 ELSE v[i] = username[i]}
    ELSE {username}

\* a slip: the all-numeric repair is left out
fix_numeric_skipped(username) == {username}

\* "Ensure not all numeric"
fix_numeric(username) ==
    IF isdigit(remove_underscores(username))
    THEN LET non_underscore_positions ==
                 {i \in 1..Len(username) : username[i] # Underscore}
         IN IF non_underscore_positions = {} THEN {username}
            ELSE {replace_at(username, position, c) :
                     position \in non_underscore_positions, c \in letters_drawn}
    ELSE {username}

\* the usernames one pass of the loop can reach its cooldown test with
repaired(min_length, max_length) ==
    UNION {UNION {UNION {fix_numeric(w) : w \in fix_underscores(v)}
                  : v \in fix_edges(u)}
           : u \in {x \in pattern_outputs(min_length, max_length) :
                       Len(x) >= min_length /\ Len(x) <= max_length}}

\* the fallback: letters, then one digit
fallback_usernames(min_length, max_length) ==
    UNION {{a \o <<d>> : a \in choices(letters_drawn, fallback_length - 1),
                          d \in digits}
           : fallback_length \in min_length..max_length}

(***************************************************************************)
(* generate_username: the forms it builds itself for a chosen length of at *)
(* most 4.  random.random() < p has both outcomes when 0 < p < 1.          *)
(***************************************************************************)
\* f"{first_char}_{last_char}"
three_char_form ==
    UNION {{<<first_char, Underscore, last_char>> :
                last_char \in
                    IF first_char \in digits
                    THEN (alnum_drawn \ digits)
                         \cup (IF alnum_drawn \cap digits # {}
                               THEN letters_drawn ELSE {})
                    ELSE alnum_drawn}
           : first_char \in alnum_drawn}

\* the characters one position of the 4-character form can get
form_characters(al) ==
    (IF al.numeric_probability > 0 THEN digits ELSE {})
    \cup (IF al.numeric_probability < Thousandths /\ al.uppercase_probability > 0
          THEN ascii_uppercase \cap letters_drawn ELSE {})
    \cup (IF al.numeric_probability < Thousandths
             /\ al.uppercase_probability < Thousandths
          THEN ascii_lowercase \cap letters_drawn ELSE {})

four_char_form(al) ==
    UNION {fix_numeric(result) :
              result \in {r \in [1..4 -> form_characters(al) \cup {Underscore}] :
                             \E underscore_pos \in {2, 3} :
                                 \A i \in 1..4 :
                                     (r[i] = Underscore) <=> (i = underscore_pos)}}

\* the lengths random.choices can pick from get_length_distribution()
chosen_lengths(al) == {k \in DOMAIN al.length_weights : al.length_weights[k] > 0}

\* whether random.random() < char_probs['underscore'] * 1.5 can be true,
\* and whether it can be false
underscore_form_possible(al) == al.underscore_probability > 0
underscore_form_avoidable(al) == 3 * al.underscore_probability < 2 * Thousandths

(***************************************************************************)
(* SpecGen: one call of generate_username() or of                          *)
(* generate_username_with_length(min_length, max_length), pass by pass of  *)
(* the attempt loop.                                                       *)
(***************************************************************************)
GenArguments ==
    {<<3, 6>>, <<1, 2>>, <<3, 4>>, <<5, 5>>, <<7, 7>>, <<3, 8>>, <<25, 30>>,
     <<6, 3>>}

\* a table in which every 3-character candidate was checked at time 0
RecentTable ==
    [u \in choices(alnum_drawn, 3) \cup generate_word_like(3) |->
        [checked_at |-> 0, is_available |-> FALSE, status_code |-> 200,
         message |-> "taken"]]

Attempting(min_length, max_length, caller) ==
    [pc |-> "attempt", min_length |-> clamp_min_length(min_length),
     max_length |-> clamp_max_length(min_length, max_length),
     attempt |-> 0, caller |-> caller]

GenInit ==
    /\ API_ENDPOINTS = ApiEndpointsInit
    /\ current_api_index = 0
    /\ memory_cache = <<>>
    /\ calls = <<>>
    /\ checked_usernames \in {<<>>, RecentTable}
    /\ now = 0
    /\ adaptive_system \in
           {AdaptiveLearningInit(0, 0),
            [AdaptiveLearningInit(0, 0) EXCEPT
                !.length_weights = length_command_weights(5, 12),
                !.numeric_probability = Fixed(0, 1)]}
    /\ state_file = <<>>
    /\ saved_parameters = <<>>
    /\ gen = [pc |-> "idle"]
    /\ obs = [op |-> "init"]
    /\ budget = [calls |-> 1]

GenUnchanged ==
    UNCHANGED <<routerVars, controllerVars, now, budget>>

GenerateUsernameWithLength ==
    /\ gen.pc = "idle"
    /\ \E args \in GenArguments :
          /\ gen' = Attempting(args[1], args[2], "generate_username_with_length")
          /\ obs' = [op |-> "generate_username_with_length", args |-> args]
    /\ GenUnchanged

\* generate_username() returns one of its own underscore forms
GenerateUsernameForm ==
    /\ gen.pc = "idle"
    /\ underscore_form_possible(adaptive_system)
    /\ \E chosen_length \in chosen_lengths(adaptive_system) :
          /\ chosen_length <= 4
          /\ \E u \in (IF chosen_length = 3 THEN three_char_form
                       ELSE four_char_form(adaptive_system)) :
                gen' = [pc |-> "returned", username |-> u, by |-> "form"]
          /\ obs' = [op |-> "generate_username", chosen_length |-> chosen_length]
    /\ GenUnchanged

\* generate_username() calls generate_username_with_length(n, n)
GenerateUsernameOfLength ==
    /\ gen.pc = "idle"
    /\ \E chosen_length \in chosen_lengths(adaptive_system) :
          /\ chosen_length > 4 \/ underscore_form_avoidable(adaptive_system)
          /\ gen' = Attempting(chosen_length, chosen_length, "generate_username")
          /\ obs' = [op |-> "generate_username", chosen_length |-> chosen_length]
    /\ GenUnchanged

\* pattern_func() raises ValueError: generate_username() catches it and
\* calls generate_username_with_length(3, 6); a direct caller gets it
AttemptRaises ==
    /\ gen.pc = "attempt"
    /\ gen.attempt < MAX_ATTEMPTS
    /\ underscore_pattern_raises(gen.min_length, gen.max_length)
    /\ gen' = IF gen.caller = "generate_username"
              THEN Attempting(3, 6, "except")
              ELSE [pc |-> "raised"]
    /\ obs' = [op |-> "raise"]
    /\ GenUnchanged

\* the pass ends with continue, or finds the username in cooldown
AttemptFails ==
    /\ gen.pc = "attempt"
    /\ gen.attempt < MAX_ATTEMPTS
    /\ \/ \E u \in pattern_outputs(gen.min_length, gen.max_length) :
             Len(u) < gen.min_length \/ Len(u) > gen.max_length
       \/ \E u \in repaired(gen.min_length, gen.max_length) :
             is_username_in_cooldown(checked_usernames, u, now, TRUE)
    /\ gen' = [gen EXCEPT !.attempt = @ + 1]
    /\ obs' = [op |-> "continue"]
    /\ GenUnchanged

AttemptReturns ==
    /\ gen.pc = "attempt"
    /\ gen.attempt < MAX_ATTEMPTS
    /\ \E u \in repaired(gen.min_length, gen.max_length) :
          /\ \E connected \in BOOLEAN :
                 ~is_username_in_cooldown(checked_usernames, u, now, connected)
          /\ gen' = [pc |-> "returned", username |-> u, by |-> "attempt"]
    /\ obs' = [op |-> "return"]
    /\ GenUnchanged

Fallback ==
    /\ gen.pc = "attempt"
    /\ gen.attempt = MAX_ATTEMPTS
    /\ \E u \in fallback_usernames(gen.min_length, gen.max_length) :
          gen' = [pc |-> "returned", username |-> u, by |-> "fallback"]
    /\ obs' = [op |-> "fallback"]
    /\ GenUnchanged

GenNext ==
    \/ GenerateUsernameWithLength
    \/ GenerateUsernameForm
    \/ GenerateUsernameOfLength
    \/ AttemptRaises
    \/ AttemptFails
    \/ AttemptReturns
    \/ Fallback

SpecGen == GenInit /\ [][GenNext]_vars

\* C7: every string generate_username() or
\* generate_username_with_length(min, max) returns, the fallback's
\* included, satisfies validate_username.
C7_GeneratorValidity ==
    gen.pc = "returned" => validate_username(gen.username)

\* the fallback returned a name after 15 failed passes
C7_Witness ==
    /\ gen.pc = "returned"
    /\ gen.by = "fallback"
    /\ validate_username(gen.username)

\* a pass of generate_username_with_length(min_length, max_length), called
\* directly with min_length <= max_length within [3, 20], is under way
direct_call_in_range ==
    /\ gen.pc = "attempt"
    /\ gen.caller = "generate_username_with_length"
    /\ <<gen.min_length, gen.max_length>> \in GenArguments

\* C32 (generator termination): generate_username_with_length(min_length,
\* max_length) with min_length <= max_length within [3, 20] never raises:
\* each pass ends in the next pass, of at most 15, or in a returned
\* candidate.
C32_GeneratorTermination ==
    [][direct_call_in_range =>
          /\ gen'.pc \in {"attempt", "returned"}
          /\ gen'.pc = "attempt" => gen'.attempt <= MAX_ATTEMPTS]_vars

(***************************************************************************)
(* database.py: record_username_check and get_username_status.             *)
(***************************************************************************)
\* cur.rowcount after the INSERT ... ON CONFLICT DO UPDATE of one row
rowcount == 1

\* record_username_check with a commit after every insert
record_username_check_commits(table, username, is_available, status_code, message, t, connected) ==
    IF ~connected THEN table
    ELSE [u \in DOMAIN table \cup {username} |->
             IF u = username
             THEN [checked_at |-> t, is_available |-> is_available,
                   status_code |-> status_code, message |-> message]
             ELSE table[u]]

\* the committed table after record_username_check: the connection is
\* closed without a commit unless is_available or rowcount % 10 == 0
record_username_check(table, username, is_available, status_code, message, t, connected) ==
    IF ~connected THEN table
    ELSE IF is_available \/ rowcount % 10 = 0
    THEN [u \in DOMAIN table \cup {username} |->
             IF u = username
             THEN [checked_at |-> t, is_available |-> is_available,
                   status_code |-> status_code, message |-> message]
             ELSE table[u]]
    ELSE table

\* get_username_status: found = FALSE is the return value None
get_username_status(table, username, connected) ==
    IF connected /\ username \in DOMAIN table
    THEN [found |-> TRUE, is_available |-> table[username].is_available,
          status_code |-> table[username].status_code,
          message |-> table[username].message]
    ELSE [found |-> FALSE, is_available |-> FALSE, status_code |-> 0,
          message |-> <<"none">>]

(***************************************************************************)
(* roblox_api.py: the endpoint router.  Delays are in ms.                  *)
(***************************************************************************)
MEMORY_CACHE_EXPIRY == 60000
DISABLE_THRESHOLD == 5
STREAK_THRESHOLD == 10

\* a slip: the delay after rate limits has no upper limit
update_api_delays_uncapped(eps) ==
    [i \in Endpoints |->
        IF eps[i].rate_limit_count > 0
        THEN [eps[i] EXCEPT !.delay = 500 + eps[i].rate_limit_count * 500]
        ELSE eps[i]]

update_api_delays(eps) ==
    [i \in Endpoints |->
        IF eps[i].rate_limit_count > 0
        THEN [eps[i] EXCEPT !.delay = Min(5000, 500 + eps[i].rate_limit_count * 500)]
        ELSE IF eps[i].success_streak >= STREAK_THRESHOLD
        THEN [eps[i] EXCEPT !.delay = Max(200, @ - 100), !.success_streak = 0]
        ELSE eps[i]]

any_enabled(eps) == \E i \in Endpoints : eps[i].enabled

\* a slip: the check that follows a disabling is left out
\* a slip: the table is left with every endpoint disabled
all_disabled_left(eps) == eps

\* a recovery that enables every endpoint again
enable_every_endpoint(eps) ==
    IF any_enabled(eps) THEN eps
    ELSE [i \in Endpoints |-> [eps[i] EXCEPT !.enabled = TRUE, !.rate_limit_count = 0]]

\* "Make sure we have at least one endpoint enabled"
ensure_one_enabled(eps) ==
    IF any_enabled(eps) THEN eps
    ELSE [eps EXCEPT ![0].enabled = TRUE, ![0].rate_limit_count = 0]

\* the status_code == -1 branch of check_username_availability on the
\* endpoint a: count the failure and, at the threshold, disable a
transport_failure(eps, a) ==
    LET counted == [eps EXCEPT ![a].success_streak = 0,
                               ![a].rate_limit_count = @ + 1]
    IN IF counted[a].rate_limit_count >= DISABLE_THRESHOLD
       THEN ensure_one_enabled([counted EXCEPT ![a].enabled = FALSE])
       ELSE counted

\* whether endpoint i can take a request at time t
ready(eps, i, t) == t - eps[i].last_request >= eps[i].delay
wait_time(eps, i, t) == eps[i].delay - (t - eps[i].last_request)

\* a slip: when no enabled endpoint is ready the current one is kept
select_next_api_keeps_current(eps, current, t) ==
    LET enabled_offsets == {i \in Endpoints : eps[(current + i) % NUM_ENDPOINTS].enabled}
        first_offset == CHOOSE i \in enabled_offsets : \A j \in enabled_offsets : i <= j
        eps1 == IF eps[current].enabled \/ enabled_offsets # {} THEN eps
                ELSE [eps EXCEPT ![0].enabled = TRUE]
        current1 == IF eps[current].enabled THEN current
                    ELSE IF enabled_offsets # {}
                    THEN (current + first_offset) % NUM_ENDPOINTS
                    ELSE 0
        alt_offsets == {i \in 1..(NUM_ENDPOINTS - 1) :
                           LET alt_index == (current1 + i) % NUM_ENDPOINTS
                           IN eps1[alt_index].enabled /\ ready(eps1, alt_index, t)}
        alt_offset == CHOOSE i \in alt_offsets : \A j \in alt_offsets : i <= j
    IN [eps |-> eps1,
        index |-> IF ready(eps1, current1, t) THEN current1
                  ELSE IF alt_offsets # {}
                  THEN (current1 + alt_offset) % NUM_ENDPOINTS
                  ELSE current1]

\* select_next_api without its first block: a disabled current endpoint is
\* not replaced
select_next_api_ignores_enabled(eps, current, t) ==
    LET alt_offsets == {i \in 1..(NUM_ENDPOINTS - 1) :
                           LET alt_index == (current + i) % NUM_ENDPOINTS
                           IN eps[alt_index].enabled /\ ready(eps, alt_index, t)}
        alt_offset == CHOOSE i \in alt_offsets : \A j \in alt_offsets : i <= j
        waiting == {i \in Endpoints : eps[i].enabled /\ ~ready(eps, i, t)}
        best_index == CHOOSE i \in waiting :
            /\ \A j \in waiting : wait_time(eps, i, t) <= wait_time(eps, j, t)
            /\ \A j \in waiting :
                   j < i => wait_time(eps, j, t) > wait_time(eps, i, t)
    IN [eps |-> eps,
        index |-> IF ready(eps, current, t) THEN current
                  ELSE IF alt_offsets # {}
                  THEN (current + alt_offset) % NUM_ENDPOINTS
                  ELSE IF waiting # {} THEN best_index
                  ELSE current]

\* select_next_api(): the index it returns (and leaves in
\* current_api_index) and the table, in which it may have re-enabled
\* endpoint 0
select_next_api(eps, current, t) ==
    LET enabled_offsets == {i \in Endpoints : eps[(current + i) % NUM_ENDPOINTS].enabled}
        first_offset == CHOOSE i \in enabled_offsets : \A j \in enabled_offsets : i <= j
        eps1 == IF eps[current].enabled \/ enabled_offsets # {} THEN eps
                ELSE [eps EXCEPT ![0].enabled = TRUE]
        current1 == IF eps[current].enabled THEN current
                    ELSE IF enabled_offsets # {}
                    THEN (current + first_offset) % NUM_ENDPOINTS
                    ELSE 0
        alt_offsets == {i \in 1..(NUM_ENDPOINTS - 1) :
                           LET alt_index == (current1 + i) % NUM_ENDPOINTS
                           IN eps1[alt_index].enabled /\ ready(eps1, alt_index, t)}
        alt_offset == CHOOSE i \in alt_offsets : \A j \in alt_offsets : i <= j
        waiting == {i \in Endpoints : eps1[i].enabled /\ ~ready(eps1, i, t)}
        best_index == CHOOSE i \in waiting :
            /\ \A j \in waiting : wait_time(eps1, i, t) <= wait_time(eps1, j, t)
            /\ \A j \in waiting :
                   j < i => wait_time(eps1, j, t) > wait_time(eps1, i, t)
    IN [eps |-> eps1,
        index |-> IF ready(eps1, current1, t) THEN current1
                  ELSE IF alt_offsets # {}
                  THEN (current1 + alt_offset) % NUM_ENDPOINTS
                  ELSE IF waiting # {} THEN best_index
                  ELSE current1]

(***************************************************************************)
(* roblox_api.py: check_username_availability and check_with_specific_api. *)
(* A call runs without interruption between two awaits: from its start to  *)
(* the request of make_http_request, from a response to the next request,  *)
(* to asyncio.sleep or to its return.  The response of a request is        *)
(* (status_code, body): body is JSON with code 0, other JSON, or no JSON.   *)
(***************************************************************************)
CallIds == 1..MaxInFlight
Usernames == {TakenName, AvailableName}

Responses ==
    {[status_code |-> 200, body |-> "code0"],
     [status_code |-> 200, body |-> "json"],
     [status_code |-> 200, body |-> "text"],
     [status_code |-> 200, body |-> "list"],
     [status_code |-> 429, body |-> "text"],
     [status_code |-> -1, body |-> "text"],
     [status_code |-> 500, body |-> "json"],
     [status_code |-> 500, body |-> "code0"]}

\* which budget a response is counted against
response_kind(resp) ==
    IF resp.status_code = -1 THEN "failures"
    ELSE IF resp.status_code = 429 THEN "rate_limits"
    ELSE IF resp.status_code = 200 /\ resp.body \in {"code0", "json"} THEN "successes"
    ELSE "others"

NoResult == [is_available |-> FALSE, status_code |-> 0, message |-> <<"none">>]
Result(is_available, status_code, message) ==
    [is_available |-> is_available, status_code |-> status_code, message |-> message]

\* a call before it starts.  started_at, finished_at, network (requests
\* issued), reported (calls of adaptive_system.record_check),
\* cooldown_seen, status_found and source record what the call did; the code keeps username, api_index, alt_index and current_time.
IdleCall ==
    [pc |-> "idle", username |-> <<>>, api_index |-> 0, alt_index |-> 0,
     current_time |-> 0, wake_at |-> 0, started_at |-> 0, finished_at |-> 0,
     network |-> 0, reported |-> 0, cooldown_seen |-> FALSE,
     status_found |-> FALSE, source |-> "none", result |-> NoResult]

\* the call after its return statement
Returned(call, result, source, t) ==
    [call EXCEPT !.pc = "done", !.result = result, !.source = source,
                 !.finished_at = t]

\* memory_cache[username] = (is_available, status_code, message, timestamp)
cache_put(cache, username, result, timestamp) ==
    [u \in DOMAIN cache \cup {username} |->
        IF u = username
        THEN [is_available |-> result.is_available,
              status_code |-> result.status_code,
              message |-> result.message, timestamp |-> timestamp]
        ELSE cache[u]]

cache_hit(cache, username, t) ==
    /\ username \in DOMAIN cache
    /\ t - cache[username].timestamp < MEMORY_CACHE_EXPIRY

\* a slip: the stored answer is never used
use_stored_never(in_cooldown_result, status) == FALSE

\* the stored answer is used when the cooldown test and the status lookup
\* both succeed
use_stored(in_cooldown_result, status) == in_cooldown_result /\ status.found

\* the part of check_with_specific_api(username, alt_index) before its
\* first await: the call and the table of endpoints after it
enter_specific_api(call, alt_index, eps, table, t, connected1, connected2) ==
    LET in_cd == is_username_in_cooldown(table, call.username, t, connected1)
        status == get_username_status(table, call.username, connected2)
        entered == [call EXCEPT !.alt_index = alt_index, !.current_time = t]
    IN IF use_stored(in_cd, status)
       THEN [eps |-> eps,
             call |-> Returned(entered,
                               Result(status.is_available, status.status_code,
                                      status.message), "store", t)]
       ELSE IF ~ready(eps, alt_index, t)
       THEN [eps |-> eps,
             call |-> [entered EXCEPT !.pc = "alt_sleep",
                                      !.wake_at = t + wait_time(eps, alt_index, t)]]
       ELSE [eps |-> [eps EXCEPT ![alt_index].last_request = t],
             call |-> [entered EXCEPT !.pc = "alt_request", !.network = @ + 1]]

\* the step of check_username_availability from the response of its
\* request to the next await or the return: the endpoints, the call, the
\* cache, the table and the controller after it
primary_response(call, resp, eps, cache, table, al, t, connected, connected1, connected2) ==
    LET a == call.api_index
        u == call.username
        unchanged == [eps |-> eps, call |-> call, cache |-> cache,
                      table |-> table, al |-> al]
        \* record_username_check, memory_cache[username] = ..., return
        answered(eps1, al1, reports, result) ==
            [eps |-> eps1,
             call |-> [Returned(call, result, "network", t) EXCEPT
                          !.reported = @ + reports],
             cache |-> cache_put(cache, u, result, call.current_time),
             table |-> record_username_check(table, u, result.is_available,
                                             result.status_code, result.message,
                                             t, connected),
             al |-> al1]
        specific(eps1, alt_index) ==
            LET r == enter_specific_api(call, alt_index, eps1, table, t,
                                        connected1, connected2)
            IN [unchanged EXCEPT !.eps = r.eps, !.call = r.call]
    IN IF resp.status_code = 429
       THEN specific(update_api_delays(
                         [eps EXCEPT ![a].rate_limit_count = @ + 1,
                                     ![a].success_streak = 0]),
                     (a + 1) % NUM_ENDPOINTS)
       ELSE IF resp.status_code = -1
       THEN LET eps1 == transport_failure(eps, a)
                offsets == {i \in 1..(NUM_ENDPOINTS - 1) :
                               eps1[(a + i) % NUM_ENDPOINTS].enabled}
                offset == CHOOSE i \in offsets : \A j \in offsets : i <= j
            IN IF offsets # {}
               THEN specific(eps1, (a + offset) % NUM_ENDPOINTS)
               ELSE answered(eps1, al, 0, Result(FALSE, -1, <<"Network error", a>>))
       ELSE IF resp.body = "text"
       THEN answered([eps EXCEPT ![a].success_streak = 0],
                     record_check(al, u, FALSE, TRUE, t), 1,
                     Result(FALSE, resp.status_code, <<"Invalid JSON", a>>))
       ELSE IF resp.status_code = 200 /\ resp.body = "list"
       THEN \* data.get raises AttributeError: except Exception
            answered([eps EXCEPT ![a].success_streak = 0], al, 0,
                     Result(FALSE, 0, <<"Unexpected error", a>>))
       ELSE IF resp.status_code = 200
       THEN LET streak == [eps EXCEPT ![a].success_streak = @ + 1]
                is_available == resp.body = "code0"
                al1 == record_check(al, u, is_available, FALSE, t)
                adapting == streak[a].success_streak >= STREAK_THRESHOLD
            IN answered(IF adapting THEN update_api_delays(streak) ELSE streak,
                        IF adapting THEN adapt(al1) ELSE al1, 1,
                        Result(is_available, 200,
                               IF is_available THEN <<"Username is available">>
                               ELSE <<"Code", "Message">>))
       ELSE answered([eps EXCEPT ![a].success_streak = 0], al, 0,
                     Result(FALSE, resp.status_code, <<"API Error", a>>))

\* whether the step above ran adapt() past its gate, which saves the state
primary_response_saves(call, resp, eps, al, t) ==
    /\ resp.status_code = 200
    /\ resp.body \in {"code0", "json"}
    /\ eps[call.api_index].success_streak + 1 >= STREAK_THRESHOLD
    /\ adapt_gate(record_check(al, call.username, resp.body = "code0", FALSE, t))

\* a slip: a rate-limited fallback request is sent again
specific_response_retries(call, resp, eps, cache, table, t, connected) ==
    [eps |-> eps,
     call |-> IF resp.status_code = 429
              THEN [call EXCEPT !.network = @ + 1]
              ELSE Returned(call, Result(FALSE, resp.status_code, <<"none">>),
                            "network", t),
     cache |-> cache, table |-> table]

\* check_with_specific_api reading the body before the status: a body with
\* code 0 counts as available whatever the status
specific_response_trusts_body(call, resp, eps, cache, table, t, connected) ==
    LET a == call.alt_index
        u == call.username
        answered(eps1, result) ==
            [eps |-> eps1,
             call |-> Returned(call, result, "network", t),
             cache |-> cache_put(cache, u, result, call.current_time),
             table |-> record_username_check(table, u, result.is_available,
                                             result.status_code, result.message,
                                             t, connected)]
    IN IF resp.status_code = 429
       THEN answered(update_api_delays(
                         [eps EXCEPT ![a].rate_limit_count = @ + 1,
                                     ![a].success_streak = 0]),
                     Result(FALSE, 429, <<"All APIs rate limited">>))
       ELSE IF resp.body = "text"
       THEN answered([eps EXCEPT ![a].success_streak = 0],
                     Result(FALSE, resp.status_code, <<"Invalid JSON", a>>))
       ELSE IF resp.status_code = 200 /\ resp.body = "list"
       THEN answered([eps EXCEPT ![a].success_streak = 0],
                     Result(FALSE, 0, <<"Error", a>>))
       ELSE IF resp.body = "code0"
       THEN answered([eps EXCEPT ![a].success_streak = @ + 1],
                     Result(TRUE, resp.status_code, <<"Username is available">>))
       ELSE IF resp.status_code = 200
       THEN answered([eps EXCEPT ![a].success_streak = @ + 1],
                     Result(FALSE, 200, <<"Code", "Message">>))
       ELSE answered([eps EXCEPT ![a].success_streak = 0],
                     Result(FALSE, resp.status_code, <<"API Error", a>>))

\* the step of check_with_specific_api from the response of its request to
\* its return.  A status of -1 comes with the text of the exception, which
\* json.loads rejects.
specific_response(call, resp, eps, cache, table, t, connected) ==
    LET a == call.alt_index
        u == call.username
        answered(eps1, result) ==
            [eps |-> eps1,
             call |-> Returned(call, result, "network", t),
             cache |-> cache_put(cache, u, result, call.current_time),
             table |-> record_username_check(table, u, result.is_available,
                                             result.status_code, result.message,
                                             t, connected)]
    IN IF resp.status_code = 429
       THEN answered(update_api_delays(
                         [eps EXCEPT ![a].rate_limit_count = @ + 1,
                                     ![a].success_streak = 0]),
                     Result(FALSE, 429, <<"All APIs rate limited">>))
       ELSE IF resp.body = "text"
       THEN answered([eps EXCEPT ![a].success_streak = 0],
                     Result(FALSE, resp.status_code, <<"Invalid JSON", a>>))
       ELSE IF resp.status_code = 200 /\ resp.body = "list"
       THEN \* data.get raises AttributeError: except Exception
            answered([eps EXCEPT ![a].success_streak = 0],
                     Result(FALSE, 0, <<"Error", a>>))
       ELSE IF resp.status_code = 200
       THEN answered([eps EXCEPT ![a].success_streak = @ + 1],
                     Result(resp.body = "code0", 200,
                            IF resp.body = "code0" THEN <<"Username is available">>
                            ELSE <<"Code", "Message">>))
       ELSE answered([eps EXCEPT ![a].success_streak = 0],
                     Result(FALSE, resp.status_code, <<"API Error", a>>))

(***************************************************************************)
(* Spec: the check pipeline.  A run starts from fresh endpoints, or after   *)
(* each endpoint answered 429 four times (counted by rate_limit_count,     *)
(* with the delay update_api_delays gives), or after that and a transport  *)
(* failure on each endpoint but the first; and with a table that is empty  *)
(* or holds an available name found a second ago.  Earlier checks that     *)
(* found nothing available leave no row (record_username_check does not    *)
(* commit them) and nothing in the controller.                             *)
(***************************************************************************)
StartTime == 100000

rate_limited(eps, k) ==
    update_api_delays([i \in Endpoints |-> [eps[i] EXCEPT !.rate_limit_count = k]])

EndpointHistories ==
    {ApiEndpointsInit,
     rate_limited(ApiEndpointsInit, 4),
     transport_failure(
         transport_failure(
             transport_failure(rate_limited(ApiEndpointsInit, 4), 1), 2), 3)}

StoredTable ==
    (AvailableName :> [checked_at |-> StartTime - 1000, is_available |-> TRUE,
                       status_code |-> 200,
                       message |-> <<"Username is available">>])

\* the outcomes a database call can have while failures are left
DbOutcomes == IF budget.db_failures > 0 THEN BOOLEAN ELSE {TRUE}

PipelineInit(events) ==
    /\ API_ENDPOINTS \in EndpointHistories
    /\ current_api_index = 0
    /\ memory_cache = <<>>
    /\ checked_usernames \in {<<>>, StoredTable}
    /\ now = StartTime
    /\ ControllerIdle
    /\ calls = [id \in CallIds |-> IdleCall]
    /\ GeneratorIdle
    /\ obs = [op |-> "init"]
    /\ budget = events

Init ==
    PipelineInit([checks |-> MaxChecks, failures |-> MaxFailures,
                  rate_limits |-> MaxRateLimits, successes |-> MaxSuccesses,
                  others |-> MaxOthers, db_failures |-> MaxDbFailures,
                  ticks |-> MaxClockSteps])

\* the slot a new call takes: the lowest idle one, else a finished one
free_slots ==
    LET idle == {id \in CallIds : calls[id].pc = "idle"}
    IN IF idle # {} THEN {CHOOSE id \in idle : \A other \in idle : id <= other}
       ELSE {id \in CallIds : calls[id].pc = "done"}

\* check_username_availability(username) up to its first await or return
StartCheck ==
    /\ budget.checks > 0
    /\ \E id \in free_slots, username \in Usernames,
          connected1 \in DbOutcomes, connected2 \in DbOutcomes :
          LET in_cd == is_username_in_cooldown(checked_usernames, username, now,
                                               connected1)
              status == get_username_status(checked_usernames, username, connected2)
              call == [IdleCall EXCEPT !.username = username, !.started_at = now,
                                       !.current_time = now,
                                       !.cooldown_seen = in_cd,
                                       !.status_found = in_cd /\ status.found]
              selected == select_next_api(API_ENDPOINTS, current_api_index, now)
          IN /\ connected1 \/ connected2
             /\ IF use_stored(in_cd, status)
                THEN /\ calls' = [calls EXCEPT ![id] =
                            Returned(call, Result(status.is_available,
                                                  status.status_code,
                                                  status.message), "store", now)]
                     /\ UNCHANGED <<API_ENDPOINTS, current_api_index>>
                ELSE IF cache_hit(memory_cache, username, now)
                THEN /\ calls' = [calls EXCEPT ![id] =
                            Returned(call,
                                     Result(memory_cache[username].is_available,
                                            memory_cache[username].status_code,
                                            memory_cache[username].message),
                                     "cache", now)]
                     /\ UNCHANGED <<API_ENDPOINTS, current_api_index>>
                ELSE /\ calls' = [calls EXCEPT ![id] =
                            [call EXCEPT !.pc = "primary_request",
                                         !.api_index = selected.index,
                                         !.network = 1]]
                     /\ API_ENDPOINTS' =
                            [selected.eps EXCEPT ![selected.index].last_request = now]
                     /\ current_api_index' = selected.index
             /\ budget' = [budget EXCEPT
                             !.checks = @ - 1,
                             !.db_failures =
                                 IF connected1 /\ (connected2 \/ ~in_cd) THEN @ ELSE @ - 1]
             /\ obs' = [op |-> "start", id |-> id]
    /\ UNCHANGED <<memory_cache, checked_usernames, now, controllerVars, gen>>

PrimaryResponse ==
    \E id \in CallIds, resp \in Responses,
       connected1 \in DbOutcomes, connected2 \in DbOutcomes :
       /\ calls[id].pc = "primary_request"
       /\ budget[response_kind(resp)] > 0
       /\ connected1 \/ connected2
       /\ LET r == primary_response(calls[id], resp, API_ENDPOINTS, memory_cache,
                                    checked_usernames, adaptive_system, now,
                                    connected1, connected1, connected2)
          IN /\ API_ENDPOINTS' = r.eps
             /\ calls' = [calls EXCEPT ![id] = r.call]
             /\ memory_cache' = r.cache
             /\ checked_usernames' = r.table
             /\ adaptive_system' = r.al
             /\ IF primary_response_saves(calls[id], resp, API_ENDPOINTS,
                                          adaptive_system, now)
                THEN /\ state_file' = save_state(r.al)
                     /\ saved_parameters' = parameters(r.al)
                ELSE UNCHANGED <<state_file, saved_parameters>>
       /\ budget' = [budget EXCEPT
                       ![response_kind(resp)] = @ - 1,
                       !.db_failures =
                           IF connected1 /\ connected2 THEN @ ELSE @ - 1]
       /\ obs' = [op |-> "primary_response", id |-> id, resp |-> resp,
                  recorded |-> connected1 /\ calls'[id].source = "network"]
       /\ UNCHANGED <<current_api_index, now, gen>>

\* asyncio.sleep(wait_time) returns; the request goes out
SpecificWake ==
    \E id \in CallIds :
       /\ calls[id].pc = "alt_sleep"
       /\ now' = Max(now, calls[id].wake_at)
       /\ API_ENDPOINTS' = [API_ENDPOINTS EXCEPT
                               ![calls[id].alt_index].last_request = now']
       /\ calls' = [calls EXCEPT ![id].pc = "alt_request", ![id].network = @ + 1]
       /\ obs' = [op |-> "wake", id |-> id]
       /\ UNCHANGED <<current_api_index, memory_cache, checked_usernames,
                      controllerVars, gen, budget>>

SpecificResponse ==
    \E id \in CallIds, resp \in Responses, connected \in DbOutcomes :
       /\ calls[id].pc = "alt_request"
       /\ budget[response_kind(resp)] > 0
       /\ LET r == specific_response(calls[id], resp, API_ENDPOINTS, memory_cache,
                                     checked_usernames, now, connected)
          IN /\ API_ENDPOINTS' = r.eps
             /\ calls' = [calls EXCEPT ![id] = r.call]
             /\ memory_cache' = r.cache
             /\ checked_usernames' = r.table
       /\ budget' = [budget EXCEPT
                       ![response_kind(resp)] = @ - 1,
                       !.db_failures = IF connected THEN @ ELSE @ - 1]
       /\ obs' = [op |-> "specific_response", id |-> id, resp |-> resp,
                  recorded |-> connected]
       /\ UNCHANGED <<current_api_index, now, controllerVars, gen>>

\* time passes: a moment, or the lifetime of a cache entry
Tick ==
    /\ budget.ticks > 0
    /\ \E dt \in {100, MEMORY_CACHE_EXPIRY} : now' = now + dt
    /\ budget' = [budget EXCEPT !.ticks = @ - 1]
    /\ obs' = [op |-> "tick"]
    /\ UNCHANGED <<routerVars, controllerVars, gen>>

Next ==
    \/ StartCheck
    \/ PrimaryResponse
    \/ SpecificWake
    \/ SpecificResponse
    \/ Tick

Spec == Init /\ [][Next]_vars

(***************************************************************************)
(* Properties of the check pipeline                                        *)
(***************************************************************************)

\* C1 (router liveness): in every reachable state, after any sequence of
\* successes, 429s and transport failures on any endpoints, in any
\* interleaving of check_username_availability and check_with_specific_api
\* calls, at least one entry of API_ENDPOINTS has enabled = True.
C1_RouterLiveness == any_enabled(API_ENDPOINTS)

\* a transport failure has just disabled the last enabled endpoint, and the
\* guard has re-enabled the first one with its count cleared
C1_Witness ==
    /\ obs.op = "primary_response"
    /\ obs.resp.status_code = -1
    /\ API_ENDPOINTS[0].enabled
    /\ API_ENDPOINTS[0].rate_limit_count = 0
    /\ \A i \in Endpoints \ {0} :
          /\ ~API_ENDPOINTS[i].enabled
          /\ API_ENDPOINTS[i].rate_limit_count >= DISABLE_THRESHOLD

\* the row of the table as check_username_availability returns it
stored_outcome(username) ==
    Result(checked_usernames[username].is_available,
           checked_usernames[username].status_code,
           checked_usernames[username].message)

\* C3 (cooldown short-circuit), as amended: if is_username_in_cooldown(c)
\* returns true and get_username_status(c) returns the stored row, then
\* check_username_availability(c) issues zero network requests and returns
\* the outcome stored for c.
C3_CooldownShortCircuit ==
    \A id \in CallIds :
        calls[id].cooldown_seen /\ calls[id].status_found =>
            /\ calls[id].pc = "done"
            /\ calls[id].network = 0
            /\ calls[id].source = "store"
            /\ calls[id].finished_at = calls[id].started_at
            /\ obs.op = "start" /\ obs.id = id =>
                   calls[id].result = stored_outcome(calls[id].username)

\* a call has just returned the stored row of a name in cooldown
C3_Witness ==
    /\ obs.op = "start"
    /\ calls[obs.id].cooldown_seen
    /\ calls[obs.id].status_found
    /\ calls[obs.id].source = "store"
    /\ calls[obs.id].result.is_available

\* C3 as stated: if is_username_in_cooldown(c) returns true, then
\* check_username_availability(c) issues zero network requests and returns
\* the outcome stored for c.
C3_AsStated ==
    \A id \in CallIds :
        calls[id].cooldown_seen =>
            /\ calls[id].network = 0
            /\ calls[id].pc = "done" => calls[id].source = "store"

\* an outcome that is neither "available" nor a definitive "taken" answer
error_outcome(result) ==
    result.message[1] \notin {"Username is available", "Code"}

\* the step is the start of call id for a name whose cached outcome is an
\* error and whose cache entry has expired
started_after_error(id) ==
    /\ calls[id].pc = "idle"
    /\ calls'[id].pc # "idle"
    /\ calls'[id].username \in DOMAIN memory_cache
    /\ error_outcome(memory_cache[calls'[id].username])
    /\ now - memory_cache[calls'[id].username].timestamp >= MEMORY_CACHE_EXPIRY

\* the step returns an error outcome from call id
error_returned(id) ==
    /\ calls[id].pc # "done"
    /\ calls'[id].pc = "done"
    /\ error_outcome(calls'[id].result)

C4_CacheShortCircuit ==
    \A i \in CallIds, j \in CallIds :
        /\ i # j
        /\ calls[i].pc # "idle"
        /\ calls[j].pc # "idle"
        /\ calls[i].username = calls[j].username
        /\ Abs(calls[i].started_at - calls[j].started_at) < MEMORY_CACHE_EXPIRY
        => ~(calls[i].network > 0 /\ calls[j].network > 0)

\* the step just taken was a response that made call obs.id return
returned_on_response ==
    /\ obs.op \in {"primary_response", "specific_response"}
    /\ calls[obs.id].pc = "done"
    /\ calls[obs.id].source = "network"

\* the response was a 200 whose body is a JSON object
normal_response(resp) == resp.status_code = 200 /\ resp.body \in {"code0", "json"}

\* C13 (propagation policy): every failure path of
\* check_username_availability (transport error, 429 on both endpoints,
\* non-200 status, malformed body with any HTTP status, unexpected
\* exception, store failure) ends by returning is_available = False with a
\* status code that distinguishes it from a normal HTTP-200 result.
C13_PropagationPolicy ==
    (returned_on_response /\ ~normal_response(obs.resp)) =>
        /\ ~calls[obs.id].result.is_available
        /\ calls[obs.id].result.status_code # 200

\* the step sends the primary request of call id, or its fallback request
primary_issued(id) ==
    calls[id].pc # "primary_request" /\ calls'[id].pc = "primary_request"
fallback_issued(id) ==
    calls[id].pc # "alt_request" /\ calls'[id].pc = "alt_request"

\* C14 (fallback target): whenever the primary attempt of a check ends in
\* 429 or in a transport failure and a fallback attempt is made, the
\* fallback request goes to an endpoint different from the primary one and
\* enabled at the moment the request is issued.
C14_FallbackTarget ==
    [][\A id \in CallIds :
          fallback_issued(id) =>
              /\ calls'[id].alt_index # calls'[id].api_index
              /\ API_ENDPOINTS'[calls'[id].alt_index].enabled]_vars

\* C16 (feedback completeness): every check that completes a network
\* attempt, on the primary or the fallback endpoint and whatever its
\* outcome, calls adaptive_system.record_check exactly once before it
\* returns.
C16_FeedbackCompleteness ==
    \A id \in CallIds :
        (calls[id].pc = "done" /\ calls[id].source = "network") =>
            calls[id].reported = 1

\* C17 (persistence of outcomes): after record_username_check(c, ...)
\* returned True, for available and not-available results alike, the store
\* holds that record: is_username_in_cooldown(c) returns true and
\* get_username_status(c) returns those fields.
C17_OutcomePersisted ==
    (returned_on_response /\ obs.recorded) =>
        LET c == calls[obs.id]
            status == get_username_status(checked_usernames, c.username, TRUE)
        IN /\ is_username_in_cooldown(checked_usernames, c.username, now, TRUE)
           /\ status.found
           /\ Result(status.is_available, status.status_code, status.message)
                  = c.result

\* C18 (per-endpoint minimum spacing): any two successive requests issued
\* to an endpoint E, by any checks, primary or fallback, are at least
\* E.delay apart.
C18_MinimumSpacing ==
    [][\A id \in CallIds :
          (primary_issued(id) \/ fallback_issued(id)) =>
              LET e == IF primary_issued(id) THEN calls'[id].api_index
                       ELSE calls'[id].alt_index
              IN now' - API_ENDPOINTS[e].last_request >= API_ENDPOINTS'[e].delay]_vars

\* the largest delay update_api_delays sets, in ms
MAX_ENDPOINT_DELAY == 5000

MaxLiveFailures == 1

\* The pipeline with its scheduling: a request of make_http_request ends
\* (its connection has a timeout of 10 s and every exception becomes the
\* status -1), and asyncio.sleep returns.  The database is up.  Every
\* request can get a response: a call issues at most two.
LiveInit ==
    PipelineInit([checks |-> MaxChecks, failures |-> MaxLiveFailures,
                  rate_limits |-> MaxRateLimits, successes |-> MaxSuccesses,
                  others |-> MaxOthers, db_failures |-> 0,
                  ticks |-> MaxClockSteps])

SpecLive ==
    /\ LiveInit /\ [][Next]_vars
    /\ WF_vars(PrimaryResponse)
    /\ WF_vars(SpecificWake)
    /\ WF_vars(SpecificResponse)

in_flight(id) == calls[id].pc \in {"primary_request", "alt_sleep", "alt_request"}

\* C15 (bounded retry, no deadlock): every check_username_availability call
\* terminates after at most two network requests, one primary and at most
\* one fallback; a failing fallback triggers no other retry; the only wait
\* of a call is the sleep for the delay of its fallback endpoint, which is
\* bounded whether or not the endpoint is enabled.
C15_BoundedRetry ==
    /\ [](\A id \in CallIds :
            /\ calls[id].network <= 2
            /\ calls[id].pc = "done" => calls[id].finished_at >= calls[id].started_at
            /\ calls[id].pc = "alt_sleep" =>
                   calls[id].wake_at - calls[id].current_time <= MAX_ENDPOINT_DELAY)
    /\ \A id \in CallIds : in_flight(id) ~> calls[id].pc = "done"

\* a call has returned after its fallback request failed too: two requests
C15_Witness ==
    /\ obs.op = "specific_response"
    /\ obs.resp.status_code \in {429, -1}
    /\ calls[obs.id].pc = "done"
    /\ calls[obs.id].network = 2

(***************************************************************************)
(* SpecDelay: the check pipeline after a longer past.  Ten checks went to  *)
(* endpoint 0, which answered each with 429 (or nine did), and fell back   *)
(* to endpoint 1, which answered 200 "taken" nine times in a row (after    *)
(* one 429, or after none); or nine checks went to endpoint 0, which       *)
(* answered each with 200 "taken".  Only the last past reaches the         *)
(* controller: check_with_specific_api reports nothing to it.              *)
(***************************************************************************)
\* the endpoints after primary_429s 429 responses of endpoint 0 and, of
\* endpoint 1, fallback_429s 429 responses followed by streak successes
DelayHistory(primary_429s, fallback_429s, streak) ==
    update_api_delays([ApiEndpointsInit EXCEPT
                          ![0].rate_limit_count = primary_429s,
                          ![1].rate_limit_count = fallback_429s,
                          ![1].success_streak = streak])

DelayHistories ==
    {[eps |-> DelayHistory(9, 0, STREAK_THRESHOLD - 1),
      al |-> AdaptiveLearningInit(0, 0)],
     [eps |-> DelayHistory(10, 1, STREAK_THRESHOLD - 1),
      al |-> AdaptiveLearningInit(0, 0)],
     [eps |-> [ApiEndpointsInit EXCEPT ![0].success_streak = STREAK_THRESHOLD - 1],
      al |-> Replay(AdaptiveLearningInit(0, 0),
                    History(STREAK_THRESHOLD - 1, 0, 0), 0)]}

DelayInit ==
    /\ \E h \in DelayHistories :
          /\ API_ENDPOINTS = h.eps
          /\ adaptive_system = h.al
    /\ current_api_index = 0
    /\ memory_cache = <<>>
    /\ checked_usernames = <<>>
    /\ now = StartTime
    /\ state_file = <<>>
    /\ saved_parameters = <<>>
    /\ calls = [id \in CallIds |-> IdleCall]
    /\ GeneratorIdle
    /\ obs = [op |-> "init"]
    /\ budget = [checks |-> MaxChecks, failures |-> MaxLiveFailures,
                 rate_limits |-> MaxRateLimits, successes |-> MaxSuccesses,
                 others |-> MaxOthers, db_failures |-> 0,
                 ticks |-> MaxClockSteps]

SpecDelay == DelayInit /\ [][Next]_vars

\* the step is the handling of a response with this status by call id, on
\* its primary request or on its fallback request
primary_handled(id, status_codes) ==
    /\ calls[id].pc = "primary_request"
    /\ calls'[id].pc # "primary_request"
    /\ obs'.op = "primary_response" /\ obs'.id = id
    /\ obs'.resp.status_code \in status_codes
fallback_handled(id, status_codes) ==
    /\ calls[id].pc = "alt_request"
    /\ calls'[id].pc # "alt_request"
    /\ obs'.op = "specific_response" /\ obs'.id = id
    /\ obs'.resp.status_code \in status_codes

\* endpoint e after the step has one rate limit more than before it, and
\* the delay min(5.0, 0.5 + 0.5 * rate_limit_count)
rate_limit_counted(e) ==
    /\ API_ENDPOINTS'[e].rate_limit_count = API_ENDPOINTS[e].rate_limit_count + 1
    /\ API_ENDPOINTS'[e].delay =
           Min(MAX_ENDPOINT_DELAY, 500 + 500 * API_ENDPOINTS'[e].rate_limit_count)

\* C21 (rate-limit delay update): after a 429 response from endpoint E has
\* been handled, on the primary or on the fallback path, E.rate_limit_count
\* has grown by one and E.delay = min(5.0, 0.5 + 0.5 * E.rate_limit_count);
\* no endpoint's delay ever exceeds 5.0.
C21_RateLimitDelay ==
    /\ [][\A id \in CallIds :
             /\ primary_handled(id, {429}) => rate_limit_counted(calls[id].api_index)
             /\ fallback_handled(id, {429}) => rate_limit_counted(calls[id].alt_index)]_vars
    /\ [](\A e \in Endpoints : API_ENDPOINTS[e].delay <= MAX_ENDPOINT_DELAY)

\* a 429 on the fallback request, after a 429 on the primary request that
\* took endpoint 0 to ten rate limits, where the delay stays at its limit
C21_Witness ==
    /\ obs.op = "specific_response"
    /\ obs.resp.status_code = 429
    /\ calls[obs.id].pc = "done"
    /\ API_ENDPOINTS[calls[obs.id].api_index].rate_limit_count >= 10
    /\ API_ENDPOINTS[calls[obs.id].api_index].delay = MAX_ENDPOINT_DELAY
    /\ API_ENDPOINTS[calls[obs.id].alt_index].delay
           = 500 + 500 * API_ENDPOINTS[calls[obs.id].alt_index].rate_limit_count

\* endpoint e after the step has its streak reset and its delay lowered by
\* 0.1 s, but not under 0.2 s
delay_lowered(e) ==
    /\ API_ENDPOINTS'[e].success_streak = 0
    /\ API_ENDPOINTS'[e].delay = Max(200, API_ENDPOINTS[e].delay - 100)

\* the response is a success that takes the streak of endpoint e to 10
streak_reached(e, resp) ==
    /\ normal_response(resp)
    /\ API_ENDPOINTS[e].success_streak + 1 = STREAK_THRESHOLD

\* C22 (success-streak delay update): whenever an endpoint's success_streak
\* reaches 10 consecutive successful responses, its delay becomes
\* max(0.2, delay - 0.1) and its success_streak is reset to 0, whatever its
\* earlier rate-limit history and whether the successes came through the
\* primary or the fallback path.
C22_SuccessStreakDelay ==
    [][\A id \in CallIds :
          /\ (primary_handled(id, {200})
              /\ streak_reached(calls[id].api_index, obs'.resp))
             => delay_lowered(calls[id].api_index)
          /\ (fallback_handled(id, {200})
              /\ streak_reached(calls[id].alt_index, obs'.resp))
             => delay_lowered(calls[id].alt_index)]_vars

\* C23 (pipeline order): the result cache is consulted before the
\* persistent store; when memory_cache holds a non-expired entry for c,
\* check_username_availability(c) returns that entry, without a true answer
\* of is_username_in_cooldown, without a row of get_username_status and
\* without a network request.
C23_CacheBeforeStore ==
    \A id \in CallIds :
        (/\ obs.op = "start" /\ obs.id = id
         /\ cache_hit(memory_cache, calls[id].username, calls[id].started_at))
        => /\ calls[id].pc = "done"
           /\ calls[id].source = "cache"
           /\ calls[id].network = 0
           /\ ~calls[id].cooldown_seen
           /\ calls[id].result =
                  Result(memory_cache[calls[id].username].is_available,
                         memory_cache[calls[id].username].status_code,
                         memory_cache[calls[id].username].message)

\* endpoint e after the step has one failure more in rate_limit_count, the
\* counter its circuit breaker tests (or is endpoint 0, re-enabled with the
\* counter cleared after the failure disabled the last enabled endpoint)
failure_counted(e) ==
    \/ API_ENDPOINTS'[e].rate_limit_count = API_ENDPOINTS[e].rate_limit_count + 1
    \/ /\ e = 0
       /\ API_ENDPOINTS[e].rate_limit_count + 1 >= DISABLE_THRESHOLD
       /\ API_ENDPOINTS'[e].rate_limit_count = 0

\* C24 (health updates on failure): whenever a network attempt of a check
\* fails at transport level, on the primary or on the fallback endpoint,
\* then before the check goes on or returns the failing endpoint's failure
\* counter has been incremented.
C24_FailureCounted ==
    [][\A id \in CallIds :
          /\ primary_handled(id, {-1}) => failure_counted(calls[id].api_index)
          /\ fallback_handled(id, {-1}) => failure_counted(calls[id].alt_index)]_vars

(***************************************************************************)
(* SpecRoute: the check pipeline when two endpoints are left.  Endpoints 2 *)
(* and 3 each had DISABLE_THRESHOLD transport failures in the past and are *)
(* disabled; endpoints 0 and 1 are as the module created them, or have     *)
(* answered 429 before, or endpoint 0 is disabled as well and endpoint 1   *)
(* is one transport failure short of DISABLE_THRESHOLD.                    *)
(***************************************************************************)
RECURSIVE TransportFailures(_, _, _)
\* the endpoints after k transport failures of endpoint a
TransportFailures(eps, a, k) ==
    IF k = 0 THEN eps
    ELSE TransportFailures(transport_failure(eps, a), a, k - 1)

RouteHistories ==
    {TransportFailures(TransportFailures(eps, 2, DISABLE_THRESHOLD), 3,
                       DISABLE_THRESHOLD) :
        eps \in {ApiEndpointsInit, DelayHistory(1, 0, 0), DelayHistory(0, 2, 0),
                 TransportFailures(
                     TransportFailures(ApiEndpointsInit, 0, DISABLE_THRESHOLD),
                     1, DISABLE_THRESHOLD - 1)}}

RouteInit ==
    /\ API_ENDPOINTS \in RouteHistories
    /\ current_api_index \in {0, 1}
    /\ memory_cache = <<>>
    /\ checked_usernames = <<>>
    /\ now = StartTime
    /\ ControllerIdle
    /\ calls = [id \in CallIds |-> IdleCall]
    /\ GeneratorIdle
    /\ obs = [op |-> "init"]
    /\ budget = [checks |-> MaxChecks, failures |-> MaxLiveFailures,
                 rate_limits |-> MaxRateLimits, successes |-> MaxSuccesses,
                 others |-> MaxOthers, db_failures |-> 0,
                 ticks |-> MaxClockSteps]

SpecRoute == RouteInit /\ [][Next]_vars

\* the step is a call of check_username_availability by call id that
\* reaches select_next_api()
selected_by(id) ==
    /\ calls[id].pc # "primary_request"
    /\ calls'[id].pc = "primary_request"

\* endpoint i is enabled when select_next_api() returns, and its delay had
\* elapsed since its last_request when select_next_api() was called
ready_at_call(i) ==
    /\ API_ENDPOINTS'[i].enabled
    /\ ready(API_ENDPOINTS, i, now)

C36_SelectedEnabled ==
    [][\A id \in CallIds :
          selected_by(id) =>
              /\ calls'[id].api_index \in Endpoints
              /\ API_ENDPOINTS'[calls'[id].api_index].enabled
              /\ current_api_index' = calls'[id].api_index]_vars

\* select_next_api() has just moved away from a disabled current endpoint
\* while another check is waiting for its response
C36_Witness ==
    /\ obs.op = "start"
    /\ calls[obs.id].pc = "primary_request"
    /\ calls[obs.id].api_index = current_api_index
    /\ current_api_index = 1
    /\ ~API_ENDPOINTS[0].enabled
    /\ ready(API_ENDPOINTS, 0, calls[obs.id].started_at)
    /\ \E other \in CallIds \ {obs.id} :
           calls[other].pc \in {"primary_request", "alt_request"}

\* C39 (available means 200): every outcome returned by
\* check_username_availability with is_available = True has status_code
\* 200, from a network attempt, from memory_cache or from the persistent
\* store alike, and every outcome with another status code has
\* is_available = False; so have the cache entries and the stored rows.
C39_AvailableIs200 ==
    /\ \A id \in CallIds :
           calls[id].pc = "done" =>
               /\ calls[id].result.is_available => calls[id].result.status_code = 200
               /\ calls[id].result.status_code # 200 => ~calls[id].result.is_available
    /\ \A u \in DOMAIN memory_cache :
           memory_cache[u].is_available => memory_cache[u].status_code = 200
    /\ \A u \in DOMAIN checked_usernames :
           checked_usernames[u].is_available => checked_usernames[u].status_code = 200

\* one check returned an available name from the fallback request and the
\* next one returned it from the cache or from the store
C39_Witness ==
    \E i \in CallIds, j \in CallIds :
        /\ calls[i].pc = "done" /\ calls[j].pc = "done"
        /\ calls[i].source = "network"
        /\ calls[i].network = 2
        /\ calls[i].result.is_available
        /\ calls[j].source \in {"cache", "store"}
        /\ calls[j].started_at >= calls[i].finished_at
        /\ calls[j].username = calls[i].username
        /\ calls[j].result = calls[i].result

\* C40 (no recovery for non-primary endpoints): an endpoint other than
\* API_ENDPOINTS[0] that is disabled stays disabled in every later state;
\* only endpoint 0 is ever re-enabled, and only when the step disabled the
\* last enabled endpoint, and its rate_limit_count is then 0.
C40_NoRecovery ==
    [][\A e \in Endpoints :
          (~API_ENDPOINTS[e].enabled /\ API_ENDPOINTS'[e].enabled) =>
              /\ e = 0
              /\ API_ENDPOINTS'[0].rate_limit_count = 0
              /\ \A b \in Endpoints \ {0} : ~API_ENDPOINTS'[b].enabled
              /\ \E a \in Endpoints \ {0} :
                     /\ API_ENDPOINTS[a].enabled
                     /\ \A b \in Endpoints \ {a} : ~API_ENDPOINTS[b].enabled]_vars

\* endpoint 0, disabled before, has just been re-enabled with its counter
\* reset by the transport failure that disabled endpoint 1, the last one
C40_Witness ==
    /\ obs.op = "primary_response"
    /\ obs.resp.status_code = -1
    /\ calls[obs.id].api_index = 1
    /\ API_ENDPOINTS[0].enabled
    /\ API_ENDPOINTS[0].rate_limit_count = 0
    /\ API_ENDPOINTS[0].success_streak = 0
    /\ \A b \in Endpoints \ {0} :
           /\ ~API_ENDPOINTS[b].enabled
           /\ API_ENDPOINTS[b].rate_limit_count >= DISABLE_THRESHOLD

\* C37 (a 429 never lowers a delay): for every endpoint, the delay after
\* the handling of a 429 response, primary or fallback, is greater than or
\* equal to its delay before it, also after endpoint 0 was re-enabled with
\* its counter reset.
C37_RateLimitNeverLowers ==
    [][\A id \in CallIds :
          (primary_handled(id, {429}) \/ fallback_handled(id, {429})) =>
              \A e \in Endpoints :
                  API_ENDPOINTS'[e].delay >= API_ENDPOINTS[e].delay]_vars

\* the handling of a response from endpoint a by call id left endpoint b as
\* it was, but for last_request when the call went on to send its fallback
\* request to b, and for the forced re-enabling of endpoint 0
left_alone(id, b) ==
    /\ API_ENDPOINTS'[b].delay = API_ENDPOINTS[b].delay
    /\ API_ENDPOINTS'[b].success_streak = API_ENDPOINTS[b].success_streak
    /\ \/ API_ENDPOINTS'[b].rate_limit_count = API_ENDPOINTS[b].rate_limit_count
       \/ /\ b = 0
          /\ \A e \in Endpoints \ {0} : ~API_ENDPOINTS'[e].enabled
          /\ API_ENDPOINTS'[0].enabled
          /\ API_ENDPOINTS'[0].rate_limit_count = 0
    /\ \/ API_ENDPOINTS'[b].last_request = API_ENDPOINTS[b].last_request
       \/ /\ calls'[id].pc = "alt_request"
          /\ calls'[id].alt_index = b

\* C38 (endpoint independence): handling a response (success, 429 or
\* transport failure) from endpoint A leaves delay, rate_limit_count,
\* success_streak and last_request of every other endpoint B unchanged; the
\* only cross-endpoint effect is the forced re-enabling of endpoint 0 when
\* no endpoint is enabled.
C38_EndpointIndependence ==
    [][\A id \in CallIds :
          /\ primary_handled(id, {200, 429, -1}) =>
                 \A b \in Endpoints \ {calls[id].api_index} : left_alone(id, b)
          /\ fallback_handled(id, {200, 429, -1}) =>
                 \A b \in Endpoints \ {calls[id].alt_index} : left_alone(id, b)]_vars

(***************************************************************************)
(* SpecBreaker: checks made one after the other (bot.py, the check         *)
(* command), from fresh endpoints.  A check runs from its call to its       *)
(* return with no other call in between, so it is one step: the selection, *)
(* the primary request and its response, and, if the code falls back, the  *)
(* sleep, the fallback request and its response.  The ghost counters in    *)
(* obs count, for every endpoint, the transport failures in a row (ended   *)
(* by any other response of the endpoint) and the transport failures       *)
(* since its last successful response.                                     *)
(***************************************************************************)
MaxBreakerChecks == 6

\* the responses of this specification: transport failure, 429, and a
\* 200 whose JSON says the name is taken
BreakerResponses ==
    {[status_code |-> -1, body |-> "text"],
     [status_code |-> 429, body |-> "text"],
     [status_code |-> 200, body |-> "json"]}

\* the fallback of a sequential check: after1 is the check after its
\* primary response r1, which entered check_with_specific_api; t2 is the
\* time of the fallback request, after the sleep if there was one
sequential_fallback(after1, r1, resp2, t2) ==
    LET slept == r1.call.pc = "alt_sleep"
        r2 == specific_response(
                  IF slept
                  THEN [r1.call EXCEPT !.pc = "alt_request", !.network = @ + 1]
                  ELSE r1.call,
                  resp2,
                  IF slept
                  THEN [r1.eps EXCEPT ![r1.call.alt_index].last_request = t2]
                  ELSE r1.eps,
                  r1.cache, r1.table, t2, TRUE)
    IN [after1 EXCEPT !.eps = r2.eps, !.cache = r2.cache, !.table = r2.table,
                      !.now = t2, !.fallback = TRUE, !.call = r2.call]

\* a sequential check after the response r1 of its primary request to the
\* endpoint index
sequential_primary(idle, index, r1, resp2, t) ==
    LET after1 == [idle EXCEPT !.eps = r1.eps, !.index = index,
                               !.cache = r1.cache, !.table = r1.table,
                               !.al = r1.al, !.primary = TRUE, !.call = r1.call]
    IN IF r1.call.pc = "done" THEN after1
       ELSE sequential_fallback(after1, r1, resp2,
                                IF r1.call.pc = "alt_sleep"
                                THEN Max(t, r1.call.wake_at) ELSE t)

\* a sequential check that found no stored and no cached answer, after
\* select_next_api() returned selected
sequential_request(idle, selected, resp1, resp2, t) ==
    sequential_primary(
        idle, selected.index,
        primary_response([idle.call EXCEPT !.pc = "primary_request",
                                           !.api_index = selected.index,
                                           !.network = 1],
                         resp1,
                         [selected.eps EXCEPT ![selected.index].last_request = t],
                         idle.cache, idle.table, idle.al, t, TRUE, TRUE, TRUE),
        resp2, t)

\* check_username_availability(username) from call to return, the database
\* up: primary and fallback tell whether the requests were issued
sequential_check(username, resp1, resp2, eps, current, cache, table, al, t) ==
    LET in_cd == is_username_in_cooldown(table, username, t, TRUE)
        status == get_username_status(table, username, TRUE)
        idle == [eps |-> eps, index |-> current, cache |-> cache, table |-> table,
                 al |-> al, now |-> t, primary |-> FALSE, fallback |-> FALSE,
                 call |-> [IdleCall EXCEPT !.username = username, !.started_at = t,
                                           !.current_time = t, !.cooldown_seen = in_cd,
                                           !.status_found = in_cd /\ status.found]]
    IN IF use_stored(in_cd, status)
       THEN [idle EXCEPT !.call =
                Returned(idle.call, Result(status.is_available, status.status_code,
                                           status.message), "store", t)]
       ELSE IF cache_hit(cache, username, t)
       THEN [idle EXCEPT !.call =
                Returned(idle.call, Result(cache[username].is_available,
                                           cache[username].status_code,
                                           cache[username].message), "cache", t)]
       ELSE sequential_request(idle, select_next_api(eps, current, t),
                               resp1, resp2, t)

\* the ghost counters after a response of endpoint i: counting stops at
\* DISABLE_THRESHOLD
counted_response(ghost, i, resp) ==
    [in_row |-> [ghost.in_row EXCEPT ![i] =
                    IF resp.status_code = -1 THEN Min(@ + 1, DISABLE_THRESHOLD)
                    ELSE 0],
     since_success |-> [ghost.since_success EXCEPT ![i] =
                    IF resp.status_code = -1 THEN Min(@ + 1, DISABLE_THRESHOLD)
                    ELSE IF resp.status_code = 200 THEN 0
                    ELSE @]]

BreakerInit ==
    /\ API_ENDPOINTS = ApiEndpointsInit
    /\ current_api_index = 0
    /\ memory_cache = <<>>
    /\ checked_usernames = <<>>
    /\ now = StartTime
    /\ ControllerIdle
    /\ calls = [id \in CallIds |-> IdleCall]
    /\ GeneratorIdle
    /\ obs = [op |-> "init",
              ghost |-> [in_row |-> [i \in Endpoints |-> 0],
                         since_success |-> [i \in Endpoints |-> 0]]]
    /\ budget = [checks |-> MaxBreakerChecks]

\* one check, and the time to the next one: a moment, or the lifetime of a
\* cache entry
BreakerCheck ==
    /\ budget.checks > 0
    /\ \E username \in {TakenName}, resp1 \in BreakerResponses,
          resp2 \in BreakerResponses, dt \in {100, MEMORY_CACHE_EXPIRY} :
          LET r == sequential_check(username, resp1, resp2, API_ENDPOINTS,
                                    current_api_index, memory_cache,
                                    checked_usernames, adaptive_system, now)
              ghost1 == IF r.primary
                        THEN counted_response(obs.ghost, r.call.api_index, resp1)
                        ELSE obs.ghost
              ghost2 == IF r.fallback
                        THEN counted_response(ghost1, r.call.alt_index, resp2)
                        ELSE ghost1
          IN /\ (~r.primary => resp1 = [status_code |-> 200, body |-> "json"])
             /\ (~r.fallback => resp2 = [status_code |-> 200, body |-> "json"])
             /\ API_ENDPOINTS' = r.eps
             /\ current_api_index' = r.index
             /\ memory_cache' = r.cache
             /\ checked_usernames' = r.table
             /\ adaptive_system' = r.al
             /\ calls' = [calls EXCEPT ![1] = r.call]
             /\ now' = r.now + dt
             /\ obs' = [op |-> "check", primary |-> r.primary,
                        fallback |-> r.fallback, resp1 |-> resp1,
                        resp2 |-> resp2, ghost |-> ghost2]
    /\ budget' = [budget EXCEPT !.checks = @ - 1]
    /\ UNCHANGED <<state_file, saved_parameters, gen>>

BreakerNext == BreakerCheck

SpecBreaker == BreakerInit /\ [][BreakerNext]_vars

\* whether the check just made sent a request to endpoint e that ended in a
\* transport failure
failed_on(e) ==
    /\ obs'.op = "check"
    /\ \/ obs'.primary /\ calls'[1].api_index = e /\ obs'.resp1.status_code = -1
       \/ obs'.fallback /\ calls'[1].alt_index = e /\ obs'.resp2.status_code = -1

\* C12 (circuit-breaker scenario): if requests to an enabled endpoint E end
\* in transport failure 5 times in a row while at least one other endpoint
\* is enabled, then E.enabled is False afterwards and the next
\* select_next_api() returns an endpoint other than E.
C12_CircuitBreakerScenario ==
    [][\A e \in Endpoints :
          (/\ failed_on(e)
           /\ obs'.ghost.in_row[e] >= DISABLE_THRESHOLD
           /\ API_ENDPOINTS[e].enabled
           /\ \E other \in Endpoints \ {e} :
                 API_ENDPOINTS[other].enabled /\ API_ENDPOINTS'[other].enabled)
          => /\ ~API_ENDPOINTS'[e].enabled
             /\ select_next_api(API_ENDPOINTS', current_api_index', now').index # e]_vars

\* C20 (circuit-breaker trigger): an endpoint becomes disabled only when it
\* has had 5 transport failures in a row with no successful response in
\* between; 429 responses and failures separated by successes never
\* contribute to disabling it.
C20_CircuitBreakerTrigger ==
    [][\A e \in Endpoints :
          (API_ENDPOINTS[e].enabled /\ ~API_ENDPOINTS'[e].enabled)
          => obs'.ghost.since_success[e] >= DISABLE_THRESHOLD]_vars

(***************************************************************************)
(* SpecDriver: bot.py, the driver loop of check_usernames_task.  Each pass *)
(* reads parallel_checks from the controller, creates that many            *)
(* check_username coroutines, awaits asyncio.gather of them and sleeps.    *)
(* The coroutines of a batch are alike, so the batch is the number of them *)
(* and the number still running.  A check that returns may have reported   *)
(* to the controller (record_check), and may have run adapt().  The        *)
(* controller has a full window of "taken" outcomes behind it.  In this    *)
(* specification calls is the state of the driver.                         *)
(***************************************************************************)
\* passes of the loop, and reports of returning checks, per run
MaxBatches == 3
MaxDriverReports == 4
\* random.uniform(0.05, 0.2), in ms: its two ends
Jitters == {50, 200}
\* "Wait a bit and continue", in ms
HandlerSleep == 2000

\* a slip: the exception of the body is not caught
check_username_uncaught(body_raises) ==
    IF body_raises THEN "raise" ELSE "return True"

\* how a check_username coroutine ends, its body (the generator call, or
\* what follows the check) having raised or not: the outer try statement
\* ends in "except Exception" and "return False"
check_username(body_raises) ==
    IF body_raises THEN "return False" ELSE "return True"

\* what a returning check did to the controller: nothing (an answer from
\* the cache or the store, an error, a fallback answer), record_check, or
\* record_check and adapt() (the endpoint's success streak at 10)
CheckEffects == {"none", "record_check", "adapt"}

DriverControllers ==
    {Replay(AdaptiveLearningInit(0, 0), History(SUCCESS_WINDOW_SIZE, 0, 0), 0),
     Replay(_load_state(AdaptiveLearningInit(1, 0), save_state(EarlierRun(7))),
            History(SUCCESS_WINDOW_SIZE, 0, 0), 0)}

DriverInit ==
    /\ API_ENDPOINTS = ApiEndpointsInit
    /\ current_api_index = 0
    /\ memory_cache = <<>>
    /\ checked_usernames = <<>>
    /\ now = 0
    /\ adaptive_system \in DriverControllers
    /\ state_file = <<>>
    /\ saved_parameters = <<>>
    /\ GeneratorIdle
    /\ calls = [pc |-> "top", parallel_checks |-> adaptive_system.parallel_checks,
                batch |-> 0, in_flight |-> 0, sleep |-> 0]
    /\ obs = [op |-> "init"]
    /\ budget = [batches |-> MaxBatches, reports |-> MaxDriverReports]

\* the top of the loop to the await of asyncio.gather: the parameter
\* update and the creation of the batch
DispatchBatch ==
    /\ calls.pc = "top"
    /\ budget.batches > 0
    /\ LET adaptive_parallel == adaptive_system.parallel_checks
           parallel_checks ==
               IF adaptive_parallel # 0 /\ adaptive_parallel # calls.parallel_checks
               THEN adaptive_parallel
               ELSE calls.parallel_checks
       IN calls' = [calls EXCEPT !.pc = "gather",
                                 !.parallel_checks = parallel_checks,
                                 !.batch = parallel_checks,
                                 !.in_flight = @ + parallel_checks]
    /\ budget' = [budget EXCEPT !.batches = @ - 1]
    /\ obs' = [op |-> "dispatch", running |-> calls.in_flight]
    /\ UNCHANGED <<API_ENDPOINTS, current_api_index, memory_cache,
                   checked_usernames, now, controllerVars, gen>>

\* one check_username coroutine ends; asyncio.gather returns with the last
\* one of its batch, and raises with the first one that raises
CheckEnds ==
    /\ calls.in_flight > 0
    /\ \E body_raises \in BOOLEAN, effect \in CheckEffects :
          LET ending == check_username(body_raises)
              recorded == record_check(adaptive_system, TakenName, FALSE, FALSE, now)
          IN /\ body_raises => effect = "none"
             /\ effect # "none" => budget.reports > 0
             /\ adaptive_system' =
                    IF effect = "none" THEN adaptive_system
                    ELSE IF effect = "record_check" THEN recorded
                    ELSE adapt(recorded)
             /\ IF effect = "adapt" /\ adapt_gate(recorded)
                THEN /\ state_file' = save_state(adaptive_system')
                     /\ saved_parameters' = parameters(adaptive_system')
                ELSE UNCHANGED <<state_file, saved_parameters>>
             /\ calls' =
                    IF calls.pc = "gather" /\ ending = "raise"
                    THEN [calls EXCEPT !.in_flight = @ - 1, !.pc = "sleep",
                                       !.sleep = HandlerSleep]
                    ELSE IF calls.pc = "gather" /\ calls.in_flight = 1
                    THEN [calls EXCEPT !.in_flight = 0, !.pc = "jitter"]
                    ELSE [calls EXCEPT !.in_flight = @ - 1]
             /\ budget' = [budget EXCEPT
                             !.reports = IF effect = "none" THEN @ ELSE @ - 1]
             /\ obs' = [op |-> "check_ends", ending |-> ending, effect |-> effect,
                        before |-> adaptive_system]
    /\ UNCHANGED <<API_ENDPOINTS, current_api_index, memory_cache,
                   checked_usernames, now, gen>>

\* await asyncio.sleep(jitter), or the sleep of the handler, and back to
\* the top of the loop
DriverSleeps ==
    /\ calls.pc \in {"jitter", "sleep"}
    /\ \E jitter \in Jitters :
          now' = now + (IF calls.pc = "jitter" THEN jitter ELSE calls.sleep)
    /\ calls' = [calls EXCEPT !.pc = "top", !.sleep = 0]
    /\ obs' = [op |-> "sleep"]
    /\ UNCHANGED <<API_ENDPOINTS, current_api_index, memory_cache,
                   checked_usernames, controllerVars, gen, budget>>

DriverNext == DispatchBatch \/ CheckEnds \/ DriverSleeps

SpecDriver == DriverInit /\ [][DriverNext]_vars

\* C33 (bounded fan-out): the driver starts a batch only when no check of
\* an earlier batch is running, the batch has exactly as many checks as the
\* controller's parallel_checks at that moment, and the number of checks
\* running never exceeds the size of the current batch.
C33_BoundedFanOut ==
    /\ [][(calls.pc = "top" /\ calls'.pc = "gather") =>
              /\ calls.in_flight = 0
              /\ calls'.batch = adaptive_system.parallel_checks
              /\ calls'.in_flight = calls'.batch]_vars
    /\ [](calls.in_flight <= calls.batch)

\* a second batch is running with a size other than the first one's, while
\* the controller has moved on to yet another value
C33_Witness ==
    /\ calls.pc = "gather"
    /\ budget.batches < MaxBatches - 1
    /\ calls.in_flight > 0
    /\ calls.in_flight < calls.batch
    /\ calls.batch # DEFAULT_PARALLEL_CHECKS
    /\ adaptive_system.parallel_checks # calls.batch

(***************************************************************************)
(* SpecWindow: record_check twice, then adapt().  A run starts from a      *)
(* controller with an empty, a short, a half-full or a full window,        *)
(* records two outcomes one after the other and calls adapt().  obs keeps  *)
(* the controller as it was before the first of the two and the two        *)
(* outcomes.                                                               *)
(***************************************************************************)
WindowHistories ==
    {History(0, 0, 0), History(MIN_VALID_CHECKS - 2, 0, 0), History(19, 6, 4),
     History(SUCCESS_WINDOW_SIZE - 40, 6, 4),
     History(0, 1, 1) \o History(SUCCESS_WINDOW_SIZE - 2, 0, 0)}

WindowInit ==
    /\ RouterIdle
    /\ GeneratorIdle
    /\ now = 0
    /\ state_file = <<>>
    /\ saved_parameters = <<>>
    /\ \E n \in 0..1, history \in WindowHistories :
          adaptive_system = Replay(AdaptiveLearningInit(n, 0), history, 0)
    /\ obs = [op |-> "init"]
    /\ budget = [records |-> 2, adapts |-> 1]

WindowRecordCheck ==
    /\ budget.records > 0
    /\ \E o \in ReportedOutcomes :
          /\ adaptive_system' = record_check(adaptive_system, o.username,
                                             o.is_available, o.error, now)
          /\ obs' = [op |-> "record_check", before |-> adaptive_system, outcome |-> o,
                     first |-> IF obs.op = "record_check"
                               THEN <<[before |-> obs.before, outcome |-> obs.outcome]>>
                               ELSE <<>>]
    /\ budget' = [budget EXCEPT !.records = @ - 1]
    /\ UNCHANGED <<routerVars, now, state_file, saved_parameters, gen>>

WindowAdapt ==
    /\ budget.adapts > 0
    /\ obs.op = "record_check"
    /\ obs.first # <<>>
    /\ adaptive_system' = adapt(adaptive_system)
    /\ IF adapt_gate(adaptive_system)
       THEN /\ state_file' = save_state(adaptive_system')
            /\ saved_parameters' = parameters(adaptive_system')
       ELSE UNCHANGED <<state_file, saved_parameters>>
    /\ obs' = [op |-> "adapt", ran |-> adapt_gate(adaptive_system),
               before |-> obs.first[1].before,
               outcomes |-> <<obs.first[1].outcome, obs.outcome>>]
    /\ budget' = [budget EXCEPT !.adapts = @ - 1]
    /\ UNCHANGED <<routerVars, now, gen>>

WindowNext == WindowRecordCheck \/ WindowAdapt

SpecWindow == WindowInit /\ [][WindowNext]_vars

\* what adapt() reads of the windows: the counts behind the overall success
\* rate and error rate and behind the success rate of each length, and the
\* pattern table
window_statistics(al) ==
    [success_rate |-> success_rate(al.recent_checks),
     valid |-> Len(valid_checks(al.recent_checks)),
     error_rate |-> _error_rate(al),
     lengths |-> [length \in DOMAIN al.recent_lengths |->
                     <<Len(al.recent_lengths[length]),
                       Len(valid_checks(al.recent_lengths[length])),
                       successful(al.recent_lengths[length])>>],
     pattern_weights |-> al.pattern_weights]

\* the controller after record_check(b) then record_check(a)
other_order(al, a, b, t) ==
    record_check(record_check(al, b.username, b.is_available, b.error, t),
                 a.username, a.is_available, a.error, t)

\* C34 (window commutativity): after record_check(a); record_check(b) the
\* overall success rate, the error rate, the per-length success rates and
\* the pattern table are those after record_check(b); record_check(a), and
\* a following adapt() leaves the same parameters in both orders.
C34_WindowCommutativity ==
    /\ (obs.op = "record_check" /\ obs.first # <<>>) =>
           window_statistics(adaptive_system)
               = window_statistics(other_order(obs.first[1].before,
                                               obs.first[1].outcome, obs.outcome, now))
    /\ obs.op = "adapt" =>
           parameters(adaptive_system)
               = parameters(adapt(other_order(obs.before, obs.outcomes[1],
                                              obs.outcomes[2], now)))

\* adapt() has changed the parameters after an error and an available name
\* of another length were recorded into a full window
C34_Witness ==
    /\ obs.op = "adapt"
    /\ obs.ran
    /\ Len(obs.before.recent_checks) = SUCCESS_WINDOW_SIZE
    /\ obs.outcomes[1].error
    /\ obs.outcomes[2].is_available
    /\ obs.outcomes[2].username = OtherName
    /\ obs.before.recent_checks[1] # obs.before.recent_checks[2]
    /\ parameters(adaptive_system) # parameters(obs.before)

=============================================================================
